---------------------------- MODULE Spec2Model ----------------------------
(***************************************************************************)
(* Session and OAuth1 token lifecycle of rs-etrade (src/src/session.rs)    *)
(* over the in-memory credential store Memstore (src/src/lib.rs).          *)
(*                                                                         *)
(* One caller drives the public operations of Session (initialize,         *)
(* invalidate, send).  Every Store operation, every network exchange and   *)
(* the interactive callback is one step; the remote servers, the user at   *)
(* the callback and the wall clock are the environment.                    *)
(***************************************************************************)
EXTENDS Integers, Sequences, FiniteSets, TLC

VARIABLES
  data,    \* Memstore.data: namespace -> (key -> secret string)
  mode,    \* Session.mode
  now,     \* wall clock, in hours (UTC) since 00:00 UTC of day 0
  pc,      \* per caller: the position in the code
  stack,   \* per caller: return positions of the pending async calls
  fr,      \* per caller: the local variables of the pending calls
  hist,    \* per caller: what the running top-level call has done so far
  result,  \* per caller: what the top-level call returned
  issuedAt,\* instant at which the stored request_token_ts was stamped
  prev,    \* per caller: the call completed last, and the store it left
  impl,    \* the Store implementation looked at on its own
  items,   \* what that Store holds
  last,    \* the last call of that Store and what it returned
  expect,  \* what the calls that succeeded so far say each key holds
  ctl      \* the run of the legacy etradectl binary

\* the variables of a Store looked at on its own
keychain == <<impl, items, last, expect>>

vars == <<data, mode, now, pc, stack, fr, hist, result, issuedAt, prev,
          impl, items, last, expect, ctl>>

-----------------------------------------------------------------------------
(* Bounds of the model *)

\* number of distinct credential pairs the OAuth endpoints hand out
MaxTok == 2
\* last calendar day (UTC) the clock reaches
MaxDay == 2

-----------------------------------------------------------------------------
(* Program constants *)

SANDBOX_NAMESPACE == "etradesandbox"
LIVE_NAMESPACE == "etrade"

API_KEY == "apikey"
SECRET_KEY == "secret"
ACCESS_TOKEN_KEY == "access_token_key"
ACCESS_TOKEN_SECRET == "access_token_secret"
REQUEST_TOKEN_KEY == "request_token_key"
REQUEST_TOKEN_SECRET == "request_token_secret"
REQUEST_TOKEN_CREATED == "request_token_ts"

REQUEST_TOKEN_URL == "https://api.etrade.com/oauth/request_token"
ACCESS_TOKEN_URL == "https://api.etrade.com/oauth/access_token"
RENEW_ACCESS_TOKEN_URL == "https://api.etrade.com/oauth/renew_access_token"

Modes == {"Sandbox", "Live"}

TokenKeys == {ACCESS_TOKEN_KEY, ACCESS_TOKEN_SECRET, REQUEST_TOKEN_KEY,
              REQUEST_TOKEN_SECRET, REQUEST_TOKEN_CREATED}

\* callers of the Session; Spec schedules the first one only
Procs == {1, 2}

-----------------------------------------------------------------------------
(* Values *)

None == <<>>
Some(v) == <<v>>
IsSome(o) == o # <<>>
Unwrap(o) == o[1]

\* Result<Credentials> / Result<()> as the async functions return it
OkPair(k, s) == [ok |-> TRUE, key |-> k, secret |-> s, err |-> ""]
OkUnit == [ok |-> TRUE, key |-> "", secret |-> "", err |-> ""]
ErrOf(msg) == [ok |-> FALSE, key |-> "", secret |-> "", err |-> msg]
NoRet == [ok |-> FALSE, key |-> "", secret |-> "", err |-> "unset"]

\* Credentials { key, secret }; NoCreds is a local not yet assigned
Creds(k, s) == [key |-> k, secret |-> s]
NoCreds == [key |-> "", secret |-> ""]

\* the credential pairs the OAuth endpoints answer with
TokKeyTable == <<"tok1", "tok2", "tok3", "tok4">>
TokSecretTable == <<"sec1", "sec2", "sec3", "sec4">>
TokIds == 1..MaxTok

\* consumer keys and secrets handed to initialize
ConsumerKeys == {"ck1", "ck2"}
ConsumerSecrets == {"cs1"}

-----------------------------------------------------------------------------
(* Memstore *)

EmptyMap == [x \in {} |-> ""]

namespace(m) == IF m = "Sandbox" THEN SANDBOX_NAMESPACE ELSE LIVE_NAMESPACE

MemPut(d, ns, k, v) ==
  LET st == IF ns \in DOMAIN d THEN d[ns] ELSE EmptyMap
      st2 == [x \in (DOMAIN st) \cup {k} |-> IF x = k THEN v ELSE st[x]]
  IN [n \in (DOMAIN d) \cup {ns} |-> IF n = ns THEN st2 ELSE d[n]]

\* Memstore::del: Ok(()) and the map without the key
\* faulty variant of MemDel: a key that is not there is an error, as it is
\* for a keychain's delete
MemDel_MissingKeyFails(d, ns, k) ==
  IF ns \in DOMAIN d /\ k \in DOMAIN d[ns]
    THEN [ok |-> TRUE,
          data |-> [d EXCEPT ![ns] = [x \in (DOMAIN d[ns]) \ {k} |-> d[ns][x]]]]
    ELSE [ok |-> FALSE, data |-> d]

MemDel(d, ns, k) ==
  IF ns \in DOMAIN d
    THEN [ok |-> TRUE,
          data |-> [d EXCEPT ![ns] = [x \in (DOMAIN d[ns]) \ {k} |-> d[ns][x]]]]
    ELSE [ok |-> TRUE, data |-> d]

MemGet(d, ns, k) ==
  IF ns \in DOMAIN d /\ k \in DOMAIN d[ns] THEN Some(d[ns][k]) ELSE None

-----------------------------------------------------------------------------
(* The Store implementations of the repository, each looked at on its own: *)
(* Memstore (lib.rs), the KeychainStore of linux.rs, macos.rs and          *)
(* windows.rs, and the SecretServiceStore and Memstore of etradectl.       *)
(* A name is the sequence of its parts between dots, a value the sequence  *)
(* of its code points.                                                      *)

StoreImpls == {"Memstore", "Linux", "MacOS", "Windows",
               "CtlSecretService", "CtlMemstore"}

StoreNamespaces == {<<"my_svc">>, <<"v1", "my_svc">>}
StoreKeys == {<<"api_key">>, <<"api_key", "v1">>}
\* "" and "he" with an acute accent on the e
StoreValues == {<<>>, <<104, 233>>}

\* str::as_bytes: the UTF-8 bytes of a value (code points below 2048)
RECURSIVE Utf8(_)
Utf8(v) ==
  IF v = <<>> THEN <<>>
  ELSE (IF Head(v) < 128 THEN <<Head(v)>>
        ELSE <<192 + (Head(v) \div 64), 128 + (Head(v) % 64)>>) \o Utf8(Tail(v))

\* String::from_utf8
RECURSIVE FromUtf8(_)
FromUtf8(b) ==
  IF b = <<>> THEN [ok |-> TRUE, val |-> <<>>]
  ELSE IF b[1] < 128
    THEN LET r == FromUtf8(Tail(b))
         IN [ok |-> r.ok, val |-> <<b[1]>> \o r.val]
  ELSE IF b[1] >= 192 /\ b[1] < 224 /\ Len(b) >= 2 /\ b[2] \in 128..191
    THEN LET r == FromUtf8(SubSeq(b, 3, Len(b)))
         IN [ok |-> r.ok, val |-> <<(b[1] - 192) * 64 + (b[2] - 128)>> \o r.val]
  ELSE [ok |-> FALSE, val |-> <<>>]

\* to_wstr_no_null and LittleEndian::write_u16_into: two bytes a code unit
RECURSIVE Utf16Le(_)
Utf16Le(v) ==
  IF v = <<>> THEN <<>>
  ELSE <<Head(v) % 256, Head(v) \div 256>> \o Utf16Le(Tail(v))

\* LittleEndian::read_u16_into over blob_len / 2 units, String::from_utf16
RECURSIVE FromUtf16Le(_)
FromUtf16Le(b) ==
  IF Len(b) < 2 THEN <<>>
  ELSE <<b[1] + 256 * b[2]>> \o FromUtf16Le(SubSeq(b, 3, Len(b)))

\* [key, namespace].join("."): the target name of a Windows credential
TargetName(nsp, k) == k \o nsp

\* the name an implementation files an item under
ItemId(i, nsp, k) == IF i = "Windows" THEN TargetName(nsp, k) ELSE <<nsp, k>>

NoItems == [x \in {} |-> <<>>]

ItemPut(its, id, b) ==
  [x \in (DOMAIN its) \cup {id} |-> IF x = id THEN b ELSE its[x]]

ItemDel(its, id) == [x \in (DOMAIN its) \ {id} |-> its[x]]

\* Store::put; up tells whether the keychain can be reached and written
StorePut(i, its, nsp, k, v, up) ==
  IF i \in {"Memstore", "CtlMemstore"}
    THEN [ok |-> TRUE, items |-> MemPut(its, nsp, k, v)]
  ELSE IF ~up THEN [ok |-> FALSE, items |-> its]
  ELSE IF i = "Windows"
    THEN [ok |-> TRUE, items |-> ItemPut(its, ItemId(i, nsp, k), Utf16Le(v))]
  ELSE [ok |-> TRUE, items |-> ItemPut(its, ItemId(i, nsp, k), Utf8(v))]

\* Store::del
StoreDel(i, its, nsp, k) ==
  IF i \in {"Memstore", "CtlMemstore"} THEN MemDel(its, nsp, k).data
  ELSE ItemDel(its, ItemId(i, nsp, k))

\* Result<()> of Store::del
StoreDelOk(i, its, nsp, k, up) ==
  IF i \in {"Memstore", "CtlMemstore"} THEN MemDel(its, nsp, k).ok
  ELSE IF i \in {"Linux", "CtlSecretService"} THEN up
  ELSE up /\ ItemId(i, nsp, k) \in DOMAIN its

\* Store::get: Result<Option<SecUtf8>>
StoreGet(i, its, nsp, k, up) ==
  LET id == ItemId(i, nsp, k)
  IN IF i \in {"Memstore", "CtlMemstore"}
       THEN [ok |-> TRUE, val |-> MemGet(its, nsp, k)]
     ELSE IF ~up THEN [ok |-> FALSE, val |-> None]
     ELSE IF i \in {"Linux", "CtlSecretService"}
       THEN IF id \notin DOMAIN its \/ its[id] = <<>>
              THEN [ok |-> TRUE, val |-> None]
              ELSE LET r == FromUtf8(its[id])
                   IN [ok |-> r.ok, val |-> IF r.ok THEN Some(r.val) ELSE None]
     ELSE IF id \notin DOMAIN its THEN [ok |-> FALSE, val |-> None]
     ELSE IF i = "MacOS"
       THEN LET r == FromUtf8(its[id])
            IN [ok |-> r.ok, val |-> IF r.ok THEN Some(r.val) ELSE None]
     ELSE [ok |-> TRUE, val |-> Some(FromUtf16Le(its[id]))]

\* whether the implementation holds something under the name
Holds(i, its, nsp, k) ==
  IF i \in {"Memstore", "CtlMemstore"} THEN IsSome(MemGet(its, nsp, k))
  ELSE ItemId(i, nsp, k) \in DOMAIN its

\* a call of the Store: the arguments, whether the keychain could be
\* reached (up), whether the name was held before (held), the Result (ok,
\* val) and whether the call left everything as it was (same)
NoCall == [op |-> "none", ns |-> <<>>, key |-> <<>>, up |-> TRUE,
           ok |-> TRUE, val |-> None, held |-> FALSE, same |-> TRUE]

\* what the calls that succeeded say a name holds: nothing yet, or the
\* Option a get is to return
Unknown == [known |-> FALSE, val |-> None]
Known(o) == [known |-> TRUE, val |-> o]
NoExpect == [x \in StoreNamespaces \X StoreKeys |-> Unknown]

-----------------------------------------------------------------------------
(* Calendar: chrono's Date<Tz> and the "%Y-%m-%d" format *)

\* US Eastern is five hours behind UTC on the days of the model (EST)
EasternOffsetHours == 5

\* the calendar days of the model, day d at index d + 1
DateTable == <<"2020-02-28", "2020-02-29", "2020-03-01", "2020-03-02",
               "2020-03-03", "2020-03-04">>
\* strings "%Y-%m-%d" also parses: month and day without the leading zero
LenientTable == <<"2020-2-28", "2020-2-29", "2020-3-1", "2020-3-2",
                  "2020-3-3", "2020-3-4">>

\* Utc::today(): Date<Utc> of the instant h, a naive date and an offset
UtcToday(h) == [date |-> h \div 24, offset |-> 0]

\* Date::with_timezone(&US::Eastern): tz.from_utc_date(&self.date), the
\* naive date is kept and only the offset is replaced
WithTimezoneEastern(d) == [date |-> d.date, offset |-> 0 - EasternOffsetHours]

\* Date::naive_local(): the stored naive date
NaiveLocal(d) == d.date

\* Date::format("%Y-%m-%d").to_string(): formats naive_local()
FormatDate(d) == DateTable[NaiveLocal(d) + 1]

\* NaiveDate::parse_from_str(v, "%Y-%m-%d"): Some(day) or None on an error
ParseDate(v) ==
  IF \E i \in 1..Len(DateTable) : DateTable[i] = v
    THEN Some((CHOOSE i \in 1..Len(DateTable) : DateTable[i] = v) - 1)
  ELSE IF \E i \in 1..Len(LenientTable) : LenientTable[i] = v
    THEN Some((CHOOSE i \in 1..Len(LenientTable) : LenientTable[i] = v) - 1)
  ELSE None

\* Utc::today().with_timezone(&chrono_tz::US::Eastern) at the instant h
Today(h) == WithTimezoneEastern(UtcToday(h))

\* the calendar date in US Eastern time of the instant h
EasternDate(h) == (h - EasternOffsetHours) \div 24

-----------------------------------------------------------------------------
(* The remote side *)

\* what a call to an OAuth endpoint can end in
EmptyBody == [form |-> "empty", id |-> 0]
OAuthBodies == {[form |-> "creds", id |-> i] : i \in TokIds}
                 \cup {[form |-> "junk", id |-> 0]}
OAuthOutcomes ==
  {[kind |-> "transport", status |-> 0, body |-> EmptyBody]}
    \cup {[kind |-> "response", status |-> s, body |-> b] :
            s \in {200, 401, 500}, b \in OAuthBodies}

\* serde_urlencoded::from_bytes::<oauth_credentials::Credentials>(&body)
FromBytes(body) ==
  IF body.form = "creds"
    THEN OkPair(TokKeyTable[body.id], TokSecretTable[body.id])
    ELSE ErrOf("missing field oauth_token")

\* send_request: the body of a 2xx answer, nothing for another status, and
\* a panic (unwrap) when the call itself fails
send_request(o) ==
  IF o.kind = "transport" THEN [panic |-> TRUE, body |-> EmptyBody]
  ELSE IF o.status \div 100 = 2 THEN [panic |-> FALSE, body |-> o.body]
  ELSE [panic |-> FALSE, body |-> EmptyBody]

\* UrlConfig::authorize_url: the consumer key and the request token key in
\* the query of the authorize page
authorize_url(key, token) == <<"authorize", "key", key, "token", token>>

\* what the user at the callback can answer
Pins == {"1234", "5678"}
CallbackOutcomes == {[ok |-> TRUE, pin |-> x] : x \in Pins}
                      \cup {[ok |-> FALSE, pin |-> ""]}

\* the head of an API response: status and Content-Type header
NoResp == [kind |-> "none", status |-> 0,
           ct |-> [present |-> FALSE, text |-> TRUE, val |-> ""]]
CtHeaders ==
  {[present |-> FALSE, text |-> TRUE, val |-> ""],
   [present |-> TRUE, text |-> FALSE, val |-> ""]}
    \cup {[present |-> TRUE, text |-> TRUE, val |-> v] :
            v \in {"application/json", "application/xml", "text/plain",
                   "application/json; charset=utf-8"}}
ApiStatuses == {200, 201, 401, 500}
ApiOutcomes ==
  {[kind |-> "transport", status |-> 0,
    ct |-> [present |-> FALSE, text |-> TRUE, val |-> ""]]}
    \cup {[kind |-> "response", status |-> s, ct |-> h] :
            s \in ApiStatuses, h \in CtHeaders}

\* what reading the body of an API response can give
NoBody == [read |-> FALSE, fmt |-> "", doc |-> "", val |-> ""]
BodyOutcomes ==
  {NoBody,
   [read |-> TRUE, fmt |-> "json", doc |-> "payload", val |-> "a"],
   [read |-> TRUE, fmt |-> "json", doc |-> "payload", val |-> "b"],
   [read |-> TRUE, fmt |-> "xml", doc |-> "payload", val |-> "a"],
   [read |-> TRUE, fmt |-> "xml", doc |-> "error", val |-> "bad request (code: 100)"],
   [read |-> TRUE, fmt |-> "junk", doc |-> "", val |-> ""]}

\* Result<R> of send, and the abort of the calling task
NoResult == [kind |-> "none", val |-> ""]
SendOk(v) == [kind |-> "ok", val |-> v]
SendErr(msg) == [kind |-> "err", val |-> msg]
Panicked == [kind |-> "panic", val |-> ""]
\* the future of send dropped by its caller before it was ready
Cancelled == [kind |-> "cancelled", val |-> ""]

\* serde_json::from_reader::<R>
JsonDe(b) ==
  IF b.fmt = "json" /\ b.doc = "payload" THEN SendOk(b.val)
  ELSE SendErr("json error")

\* quick_xml::de::from_reader::<R>
XmlDe(b) ==
  IF b.fmt = "xml" /\ b.doc = "payload" THEN SendOk(b.val)
  ELSE SendErr("xml error")

\* quick_xml::de::from_reader::<ErrorData>, then the error built from it
ErrorDe(b) ==
  IF b.fmt = "xml" /\ b.doc = "error" THEN SendErr(b.val)
  ELSE SendErr("xml error")

\* faulty variant of ContentType: without a readable header there is no
\* content type
ContentType_RequiresHeader(h) ==
  IF h.present /\ h.text THEN h.val ELSE ""

\* the declared content type as send reads it
ContentType(h) ==
  IF h.present /\ h.text THEN h.val ELSE "application/json"

\* faulty variant of Classify: the content type is looked at before the status
Classify_ContentTypeFirst(resp, b) ==
  IF ~b.read THEN SendErr("body error")
  ELSE IF ContentType(resp.ct) = "application/xml" THEN XmlDe(b)
  ELSE IF ContentType(resp.ct) = "application/json" THEN JsonDe(b)
  ELSE IF resp.status \div 100 # 2 THEN ErrorDe(b)
  ELSE SendErr("api responded with unknown content type")

\* faulty variant of Classify: the deserializer follows the body, not the
\* declared content type
Classify_SniffsBody(resp, b) ==
  IF ~b.read THEN SendErr("body error")
  ELSE IF resp.status \div 100 # 2 THEN ErrorDe(b)
  ELSE IF b.fmt = "xml" THEN XmlDe(b)
  ELSE JsonDe(b)

\* faulty variant of Classify: only a 4xx status is taken as a failure
Classify_ClientErrorsOnly(resp, b) ==
  IF ~b.read THEN SendErr("body error")
  ELSE IF resp.status \div 100 = 4 THEN ErrorDe(b)
  ELSE IF ContentType(resp.ct) = "application/xml" THEN XmlDe(b)
  ELSE IF ContentType(resp.ct) = "application/json" THEN JsonDe(b)
  ELSE SendErr("api responded with unknown content type")

\* the tail of send: status, content type, body
Classify(resp, b) ==
  IF ~b.read THEN SendErr("body error")
  ELSE IF resp.status \div 100 # 2 THEN ErrorDe(b)
  ELSE IF ContentType(resp.ct) = "application/xml" THEN XmlDe(b)
  ELSE IF ContentType(resp.ct) = "application/json" THEN JsonDe(b)
  ELSE SendErr("api responded with unknown content type")

-----------------------------------------------------------------------------
(* oauth::Builder *)

\* the header oauth::Builder signs: the client (consumer) credentials, the
\* token, the verifier and the callback set on the builder before get/build
Authorization(step, consumer, token, verifier, callback) ==
  [step |-> step, consumer |-> consumer, token |-> token,
   verifier |-> verifier, callback |-> callback]

NoAuth == Authorization("none", NoCreds, None, None, None)

-----------------------------------------------------------------------------
(* Frames *)

InitFrame == [
  args      |-> NoCreds,   \* initialize: key, secret
  ckey      |-> None,      \* consumer: consumer_key
  consumer  |-> NoCreds,   \* do_send: consumer
  atcons    |-> NoCreds,   \* access_token: consumer
  atk       |-> None,      \* access_token: access_token
  ats       |-> None,      \* access_token: access_secret
  rtk       |-> None,      \* request_token: request_token
  rts       |-> None,      \* request_token: request_secret
  rtts      |-> None,      \* request_token: request_token_ts
  creds     |-> NoCreds,   \* request_token / renew / create: creds
  reqtok    |-> NoCreds,   \* access_token / full flow: request_token
  pin       |-> "",        \* full flow: pin
  acctok    |-> NoCreds,   \* do_send: access_token
  invi      |-> 0,         \* invalidate: the deletion reached
  dsresp    |-> NoResp,    \* do_send: resp
  resp      |-> NoResp,    \* send: resp
  ret       |-> NoRet      \* value returned by the async call just finished
]

\* what the running top-level call has done (not program state)
InitHist == [
  op        |-> "none",    \* the top-level operation
  attempts  |-> 0,         \* do_send calls begun by send
  statuses  |-> <<>>,      \* statuses of the API responses received
  apiTx     |-> 0,         \* API requests transmitted
  sendInv   |-> 0,         \* invalidate calls made by send itself
  trace     |-> <<>>,      \* steps of the running or failed access_token call
  atEntry   |-> EmptyMap,  \* the store when access_token was entered
  rtEntry   |-> EmptyMap,  \* the store when request_token was entered
  rtNet     |-> 0,         \* request-token endpoint calls of this request_token
  rtLookup  |-> 0 - 1,     \* instant of the date check of this request_token
  rtStamp   |-> 0 - 1,     \* instant of the date stamp of this request_token
  entry     |-> EmptyMap,  \* the store when the public invalidate was called
  issued    |-> NoCreds,   \* the pair of the last credential response
  authStatus |-> 0,        \* status of the last OAuth endpoint answer
  cbUrl     |-> <<>>,      \* the URL the callback was invoked with
  cbPin     |-> "",        \* the verifier the callback returned
  exchange  |-> <<>>,      \* consumer, token and verifier signing the exchange
  auth      |-> NoAuth,    \* the Authorization of the request built last
  lastResp  |-> NoResp,    \* the head of the last API response
  lastBody  |-> NoBody,    \* the body read from the last API response
  afterCancel |-> FALSE,   \* the call before this one was dropped by its caller
  afterRejected |-> None,  \* the token a send rejected twice left stored
  cached    |-> FALSE      \* the first do_send got its token from the cache
]

NoPrev == [inv |-> FALSE, data |-> EmptyMap, cancelled |-> FALSE]

\* etradectl before it is started: no client, no attempt made
NoCtl == [pc |-> "start", cnt |-> 0,
          client |-> [rt |-> NoCreds, at |-> NoCreds],
          calls |-> <<>>, refreshes |-> 0, result |-> "none"]

\* Session::new, and callers that have not called yet
SessionInit ==
  /\ mode \in Modes
  /\ now = 24
  /\ issuedAt = 0 - 1
  /\ prev = [p \in Procs |-> NoPrev]
  /\ pc = [p \in Procs |-> "idle"]
  /\ stack = [p \in Procs |-> <<>>]
  /\ fr = [p \in Procs |-> InitFrame]
  /\ hist = [p \in Procs |-> InitHist]
  /\ result = [p \in Procs |-> NoResult]

\* a Session over a Memstore::new()
Init ==
  /\ data = EmptyMap
  /\ SessionInit
  /\ impl = "Memstore"
  /\ items = NoItems
  /\ last = NoCall
  /\ expect = NoExpect
  /\ ctl = NoCtl

-----------------------------------------------------------------------------
(* Control *)

ns == namespace(mode)

Step(p, l, st, f, h) ==
  /\ pc' = [pc EXCEPT ![p] = l]
  /\ stack' = [stack EXCEPT ![p] = st]
  /\ fr' = [fr EXCEPT ![p] = f]
  /\ hist' = [hist EXCEPT ![p] = h]

\* go on inside the running async function
Goto(p, l, f, h) == Step(p, l, stack[p], f, h) /\ UNCHANGED result

\* await another async function of the Session
CallFn(p, entry, retTo, f, h) ==
  Step(p, entry, <<retTo>> \o stack[p], f, h) /\ UNCHANGED result

\* return v to the awaiting function
Ret(p, v, f, h) ==
  /\ Step(p, Head(stack[p]), Tail(stack[p]), [f EXCEPT !.ret = v], h)
  /\ UNCHANGED result

\* the top-level call returns r to the caller
Finish(p, r, h) ==
  /\ Step(p, "done", <<>>, InitFrame, h)
  /\ result' = [result EXCEPT ![p] = r]

\* a panic unwinds the calling task
Panic(p, h) == Finish(p, Panicked, h)

Log(h, e) == [h EXCEPT !.trace = Append(@, e)]

\* the instant the stored request_token_ts was stamped, none once it is gone
IssuedAfter(d, t) ==
  IF MemGet(d, ns, REQUEST_TOKEN_CREATED) = None THEN 0 - 1 ELSE t

-----------------------------------------------------------------------------
(* The wall clock.  Only the instants at which the UTC or the Eastern       *)
(* calendar date changes are told apart.                                    *)

Tick ==
  /\ now < 24 * MaxDay + EasternOffsetHours
  /\ now' = IF now % 24 < EasternOffsetHours
              THEN (now \div 24) * 24 + EasternOffsetHours
              ELSE (now \div 24 + 1) * 24
  /\ UNCHANGED <<data, mode, keychain, ctl, pc, stack, fr, hist, result, issuedAt, prev>>

-----------------------------------------------------------------------------
(* Session::initialize *)

CallInitialize(p) ==
  /\ pc[p] = "idle"
  /\ \E k \in ConsumerKeys, s \in ConsumerSecrets :
       Goto(p, "init_put_key", [InitFrame EXCEPT !.args = Creds(k, s)],
            [InitHist EXCEPT !.op = "initialize"])
  /\ prev' = [prev EXCEPT ![p] = NoPrev]
  /\ UNCHANGED <<data, mode, keychain, ctl, now, issuedAt>>

InitializePutKey(p) ==
  /\ pc[p] = "init_put_key"
  /\ data' = MemPut(data, ns, API_KEY, fr[p].args.key)
  /\ Goto(p, "init_put_secret", fr[p], hist[p])
  /\ UNCHANGED <<mode, keychain, ctl, now, issuedAt, prev>>

\* faulty variant of InitializePutSecret: the secret goes to the live
\* namespace whatever the mode
InitializePutSecret_LiveNamespace(p) ==
  /\ pc[p] = "init_put_secret"
  /\ data' = MemPut(data, LIVE_NAMESPACE, SECRET_KEY, fr[p].args.secret)
  /\ Finish(p, SendOk(""), hist[p])
  /\ UNCHANGED <<mode, keychain, ctl, now, issuedAt, prev>>

InitializePutSecret(p) ==
  /\ pc[p] = "init_put_secret"
  /\ data' = MemPut(data, ns, SECRET_KEY, fr[p].args.secret)
  /\ Finish(p, SendOk(""), hist[p])
  /\ UNCHANGED <<mode, keychain, ctl, now, issuedAt, prev>>

-----------------------------------------------------------------------------
(* Session::invalidate *)

\* faulty variant of InvalidateOrder: the issued date is left behind
InvalidateOrder_KeepsCreated == <<ACCESS_TOKEN_KEY, ACCESS_TOKEN_SECRET,
                                  REQUEST_TOKEN_SECRET, REQUEST_TOKEN_KEY>>

\* faulty variant of InvalidateOrder: the consumer secret is deleted too
InvalidateOrder_AlsoSecret == <<ACCESS_TOKEN_KEY, ACCESS_TOKEN_SECRET,
                                REQUEST_TOKEN_SECRET, REQUEST_TOKEN_KEY,
                                REQUEST_TOKEN_CREATED, SECRET_KEY>>

\* the keys invalidate deletes, in the order of its five del calls
InvalidateOrder == <<ACCESS_TOKEN_KEY, ACCESS_TOKEN_SECRET,
                     REQUEST_TOKEN_SECRET, REQUEST_TOKEN_KEY,
                     REQUEST_TOKEN_CREATED>>

CallInvalidate(p) ==
  /\ pc[p] = "idle"
  /\ CallFn(p, "inv", "api_ret", [InitFrame EXCEPT !.invi = 1],
            [InitHist EXCEPT !.op = "invalidate", !.entry = data])
  /\ UNCHANGED <<data, mode, keychain, ctl, now, issuedAt, prev>>

\* one self.store.del(self.namespace(), KEY)? of invalidate
invalidate(p) ==
  /\ pc[p] = "inv"
  /\ LET i == fr[p].invi
         r == MemDel(data, ns, InvalidateOrder[i])
     IN /\ data' = r.data
        /\ issuedAt' = IssuedAfter(r.data, issuedAt)
        /\ IF ~r.ok
             THEN Ret(p, ErrOf("store error"), [fr[p] EXCEPT !.invi = 0],
                      hist[p])
           ELSE IF i < Len(InvalidateOrder)
             THEN Goto(p, "inv", [fr[p] EXCEPT !.invi = i + 1], hist[p])
           ELSE Ret(p, OkUnit, [fr[p] EXCEPT !.invi = 0], hist[p])
  /\ UNCHANGED <<mode, keychain, ctl, now, prev>>

\* the caller of the public invalidate gets its result
InvalidateReturn(p) ==
  /\ pc[p] = "api_ret"
  /\ Finish(p, IF fr[p].ret.ok THEN SendOk("") ELSE SendErr(fr[p].ret.err),
            hist[p])
  /\ UNCHANGED <<data, mode, keychain, ctl, now, issuedAt, prev>>

-----------------------------------------------------------------------------
(* Session::consumer *)

ConsumerGetKey(p) ==
  /\ pc[p] = "cons_key"
  /\ LET r == MemGet(data, ns, API_KEY)
     IN IF r = None
          THEN Ret(p, ErrOf("secret apikey not found"), fr[p], hist[p])
          ELSE Goto(p, "cons_secret", [fr[p] EXCEPT !.ckey = r], hist[p])
  /\ UNCHANGED <<data, mode, keychain, ctl, now, issuedAt, prev>>

\* faulty variant of ConsumerGetSecret: a missing secret is taken as empty
ConsumerGetSecret_DefaultsSecret(p) ==
  /\ pc[p] = "cons_secret"
  /\ LET r == MemGet(data, ns, SECRET_KEY)
         f == [fr[p] EXCEPT !.ckey = None]
     IN Ret(p, OkPair(Unwrap(fr[p].ckey), IF r = None THEN "" ELSE Unwrap(r)),
            f, hist[p])
  /\ UNCHANGED <<data, mode, keychain, ctl, now, issuedAt, prev>>

ConsumerGetSecret(p) ==
  /\ pc[p] = "cons_secret"
  /\ LET r == MemGet(data, ns, SECRET_KEY)
         f == [fr[p] EXCEPT !.ckey = None]
     IN IF r = None
          THEN Ret(p, ErrOf("secret secret not found"), f, hist[p])
          ELSE Ret(p, OkPair(Unwrap(fr[p].ckey), Unwrap(r)), f, hist[p])
  /\ UNCHANGED <<data, mode, keychain, ctl, now, issuedAt, prev>>

-----------------------------------------------------------------------------
(* Session::request_token *)

\* the ghost record of a request_token call that starts now
EnterRt(h) ==
  [h EXCEPT !.rtEntry = data, !.rtNet = 0, !.rtLookup = 0 - 1,
            !.rtStamp = 0 - 1]

LeaveRt(h) ==
  [h EXCEPT !.rtEntry = EmptyMap, !.rtNet = 0, !.rtLookup = 0 - 1,
            !.rtStamp = 0 - 1]

ClearRt(f) ==
  [f EXCEPT !.rtk = None, !.rts = None, !.rtts = None, !.creds = NoCreds]

RequestTokenGetKey(p) ==
  /\ pc[p] = "rt_get_key"
  /\ Goto(p, "rt_get_secret",
          [fr[p] EXCEPT !.rtk = MemGet(data, ns, REQUEST_TOKEN_KEY)], hist[p])
  /\ UNCHANGED <<data, mode, keychain, ctl, now, issuedAt, prev>>

RequestTokenGetSecret(p) ==
  /\ pc[p] = "rt_get_secret"
  /\ Goto(p, "rt_get_ts",
          [fr[p] EXCEPT !.rts = MemGet(data, ns, REQUEST_TOKEN_SECRET)],
          hist[p])
  /\ UNCHANGED <<data, mode, keychain, ctl, now, issuedAt, prev>>

\* faulty variant of DateCheck: a date of an earlier day passes too
DateCheck_NotAfter(v, h) ==
  LET b == Unwrap(ParseDate(v))
      d == NaiveLocal(Today(h))
  IN IF b <= d THEN Some(d) ELSE None

\* the closure of and_then: the stored date against today's
DateCheck(v, h) ==
  LET b == Unwrap(ParseDate(v))
      d == NaiveLocal(Today(h))
  IN IF b = d THEN Some(d) ELSE None

\* get of the issued date, the date check and the match on the three values
RequestTokenGetTs(p) ==
  /\ pc[p] = "rt_get_ts"
  /\ LET v == MemGet(data, ns, REQUEST_TOKEN_CREATED)
         h == [hist[p] EXCEPT !.rtLookup = now]
     IN IF IsSome(v) /\ ParseDate(Unwrap(v)) = None
          THEN Panic(p, Log(h, "rt_panic"))
          ELSE LET ts == IF v = None THEN None ELSE DateCheck(Unwrap(v), now)
               IN IF IsSome(ts) /\ IsSome(fr[p].rtk) /\ IsSome(fr[p].rts)
                    THEN Ret(p, OkPair(Unwrap(fr[p].rtk), Unwrap(fr[p].rts)),
                             ClearRt(fr[p]), Log(h, "rt_cached"))
                    ELSE Goto(p, "rt_fetch", [fr[p] EXCEPT !.rtts = ts], h)
  /\ UNCHANGED <<data, mode, keychain, ctl, now, issuedAt, prev>>

\* faulty variant of RequestTokenFetch: an answer that cannot be used drops
\* the stored request token key
RequestTokenFetch_DropsStale(p) ==
  /\ pc[p] = "rt_fetch"
  /\ \E o \in OAuthOutcomes :
       LET sr == send_request(o)
           parsed == FromBytes(sr.body)
           h == [hist[p] EXCEPT
                   !.rtNet = @ + 1, !.authStatus = o.status,
                   !.auth = Authorization("request_token", fr[p].atcons,
                                          None, None, Some("oob"))]
       IN IF sr.panic THEN Panic(p, Log(h, "rt_panic")) /\ data' = data
          ELSE IF ~parsed.ok
            THEN /\ Ret(p, parsed, ClearRt(fr[p]), Log(h, "rt_err"))
                 /\ data' = MemDel(data, ns, REQUEST_TOKEN_KEY).data
          ELSE /\ Goto(p, "rt_put_key",
                       [fr[p] EXCEPT !.creds = Creds(parsed.key, parsed.secret)],
                       [Log(h, "rt_ok") EXCEPT
                          !.issued = Creds(parsed.key, parsed.secret)])
               /\ data' = data
  /\ UNCHANGED <<mode, keychain, ctl, now, issuedAt, prev>>

\* the signed GET to the request-token endpoint and the parse of its body
RequestTokenFetch(p) ==
  /\ pc[p] = "rt_fetch"
  /\ \E o \in OAuthOutcomes :
       LET sr == send_request(o)
           parsed == FromBytes(sr.body)
           h == [hist[p] EXCEPT
                   !.rtNet = @ + 1, !.authStatus = o.status,
                   !.auth = Authorization("request_token", fr[p].atcons,
                                          None, None, Some("oob"))]
       IN IF sr.panic THEN Panic(p, Log(h, "rt_panic"))
          ELSE IF ~parsed.ok
            THEN Ret(p, parsed, ClearRt(fr[p]), Log(h, "rt_err"))
          ELSE Goto(p, "rt_put_key",
                    [fr[p] EXCEPT !.creds = Creds(parsed.key, parsed.secret)],
                    [Log(h, "rt_ok") EXCEPT
                       !.issued = Creds(parsed.key, parsed.secret)])
  /\ UNCHANGED <<data, mode, keychain, ctl, now, issuedAt, prev>>

RequestTokenPutKey(p) ==
  /\ pc[p] = "rt_put_key"
  /\ data' = MemPut(data, ns, REQUEST_TOKEN_KEY, fr[p].creds.key)
  /\ Goto(p, "rt_put_secret", fr[p], hist[p])
  /\ UNCHANGED <<mode, keychain, ctl, now, issuedAt, prev>>

\* faulty variant of RequestTokenPutSecret: the secret is not stored
RequestTokenPutSecret_Skipped(p) ==
  /\ pc[p] = "rt_put_secret"
  /\ Goto(p, "rt_put_ts", fr[p], hist[p])
  /\ UNCHANGED <<data, mode, keychain, ctl, now, issuedAt, prev>>

RequestTokenPutSecret(p) ==
  /\ pc[p] = "rt_put_secret"
  /\ data' = MemPut(data, ns, REQUEST_TOKEN_SECRET, fr[p].creds.secret)
  /\ Goto(p, "rt_put_ts", fr[p], hist[p])
  /\ UNCHANGED <<mode, keychain, ctl, now, issuedAt, prev>>

\* today's date is formatted and stored, the new pair is returned
RequestTokenPutTs(p) ==
  /\ pc[p] = "rt_put_ts"
  /\ LET today == FormatDate(Today(now))
     IN data' = MemPut(data, ns, REQUEST_TOKEN_CREATED, today)
  /\ issuedAt' = now
  /\ Ret(p, OkPair(fr[p].creds.key, fr[p].creds.secret), ClearRt(fr[p]),
         [hist[p] EXCEPT !.rtStamp = now])
  /\ UNCHANGED <<mode, keychain, ctl, now, prev>>

-----------------------------------------------------------------------------
(* Session::access_token *)

AccessTokenAfterConsumer(p) ==
  /\ pc[p] = "at_after_consumer"
  /\ IF ~fr[p].ret.ok
       THEN Ret(p, fr[p].ret, fr[p], hist[p])
       ELSE Goto(p, "at_get_key",
                 [fr[p] EXCEPT !.atcons = Creds(fr[p].ret.key, fr[p].ret.secret)],
                 hist[p])
  /\ UNCHANGED <<data, mode, keychain, ctl, now, issuedAt, prev>>

AccessTokenGetKey(p) ==
  /\ pc[p] = "at_get_key"
  /\ Goto(p, "at_get_secret",
          [fr[p] EXCEPT !.atk = MemGet(data, ns, ACCESS_TOKEN_KEY)], hist[p])
  /\ UNCHANGED <<data, mode, keychain, ctl, now, issuedAt, prev>>

ClearAt(f) ==
  [f EXCEPT !.atk = None, !.ats = None, !.atcons = NoCreds,
            !.reqtok = NoCreds, !.pin = "", !.creds = NoCreds]

\* faulty variant of AccessTokenGetSecret: the cached pair is never used
AccessTokenGetSecret_NoCache(p) ==
  /\ pc[p] = "at_get_secret"
  /\ CallFn(p, "rt_get_key", "at_after_rt",
            [fr[p] EXCEPT !.ats = MemGet(data, ns, ACCESS_TOKEN_SECRET)],
            EnterRt(hist[p]))
  /\ UNCHANGED <<data, mode, keychain, ctl, now, issuedAt, prev>>

\* get of the secret and the match: the cached pair, or request_token
AccessTokenGetSecret(p) ==
  /\ pc[p] = "at_get_secret"
  /\ LET s == MemGet(data, ns, ACCESS_TOKEN_SECRET)
     IN IF IsSome(fr[p].atk) /\ IsSome(s)
          THEN Ret(p, OkPair(Unwrap(fr[p].atk), Unwrap(s)), ClearAt(fr[p]),
                   [hist[p] EXCEPT !.cached = hist[p].attempts = 1])
          ELSE CallFn(p, "rt_get_key", "at_after_rt",
                      [fr[p] EXCEPT !.ats = s], EnterRt(hist[p]))
  /\ UNCHANGED <<data, mode, keychain, ctl, now, issuedAt, prev>>

\* faulty variant of AccessTokenAfterRt: the renewal is never tried
AccessTokenAfterRt_NoRenewal(p) ==
  /\ pc[p] = "at_after_rt"
  /\ CallFn(p, "inv", "full_after_inv", [fr[p] EXCEPT !.invi = 1],
            LeaveRt(hist[p]))
  /\ UNCHANGED <<data, mode, keychain, ctl, now, issuedAt, prev>>

\* request_token failed: the full flow; else the renewal with its token
AccessTokenAfterRt(p) ==
  /\ pc[p] = "at_after_rt"
  /\ IF ~fr[p].ret.ok
       THEN CallFn(p, "inv", "full_after_inv", [fr[p] EXCEPT !.invi = 1],
                   LeaveRt(hist[p]))
       ELSE CallFn(p, "renew_fetch", "at_after_renew",
                   [fr[p] EXCEPT !.reqtok = Creds(fr[p].ret.key, fr[p].ret.secret)],
                   LeaveRt(hist[p]))
  /\ UNCHANGED <<data, mode, keychain, ctl, now, issuedAt, prev>>

\* the renewed token is returned, a failed renewal starts the full flow
AccessTokenAfterRenew(p) ==
  /\ pc[p] = "at_after_renew"
  /\ IF fr[p].ret.ok
       THEN Ret(p, fr[p].ret, ClearAt(fr[p]), hist[p])
       ELSE CallFn(p, "inv", "full_after_inv", [fr[p] EXCEPT !.invi = 1],
                   hist[p])
  /\ UNCHANGED <<data, mode, keychain, ctl, now, issuedAt, prev>>

-----------------------------------------------------------------------------
(* Session::renew_access_token *)

RenewFetch(p) ==
  /\ pc[p] = "renew_fetch"
  /\ \E o \in OAuthOutcomes :
       LET sr == send_request(o)
           parsed == FromBytes(sr.body)
           h == [hist[p] EXCEPT
                   !.authStatus = o.status,
                   !.auth = Authorization("renew_access_token", fr[p].atcons,
                                          Some(fr[p].reqtok), None, None)]
       IN IF sr.panic THEN Panic(p, Log(h, "renew_panic"))
          ELSE IF ~parsed.ok
            THEN Ret(p, parsed, fr[p], Log(h, "renew_err"))
          ELSE Goto(p, "renew_put_key",
                    [fr[p] EXCEPT !.creds = Creds(parsed.key, parsed.secret)],
                    [Log(h, "renew_ok") EXCEPT
                       !.issued = Creds(parsed.key, parsed.secret)])
  /\ UNCHANGED <<data, mode, keychain, ctl, now, issuedAt, prev>>

RenewPutKey(p) ==
  /\ pc[p] = "renew_put_key"
  /\ data' = MemPut(data, ns, ACCESS_TOKEN_KEY, fr[p].creds.key)
  /\ Goto(p, "renew_put_secret", fr[p], hist[p])
  /\ UNCHANGED <<mode, keychain, ctl, now, issuedAt, prev>>

\* faulty variant of RenewPutSecret: the key is stored as the secret
RenewPutSecret_StoresKey(p) ==
  /\ pc[p] = "renew_put_secret"
  /\ data' = MemPut(data, ns, ACCESS_TOKEN_SECRET, fr[p].creds.key)
  /\ Ret(p, OkPair(fr[p].creds.key, fr[p].creds.secret),
         [fr[p] EXCEPT !.creds = NoCreds], hist[p])
  /\ UNCHANGED <<mode, keychain, ctl, now, issuedAt, prev>>

RenewPutSecret(p) ==
  /\ pc[p] = "renew_put_secret"
  /\ data' = MemPut(data, ns, ACCESS_TOKEN_SECRET, fr[p].creds.secret)
  /\ Ret(p, OkPair(fr[p].creds.key, fr[p].creds.secret),
         [fr[p] EXCEPT !.creds = NoCreds], hist[p])
  /\ UNCHANGED <<mode, keychain, ctl, now, issuedAt, prev>>

-----------------------------------------------------------------------------
(* Session::full_access_token_flow and Session::create_access_token *)

FullAfterInvalidate(p) ==
  /\ pc[p] = "full_after_inv"
  /\ IF ~fr[p].ret.ok
       THEN Ret(p, fr[p].ret, ClearAt(fr[p]), hist[p])
       ELSE CallFn(p, "rt_get_key", "full_after_rt", fr[p],
                   EnterRt(Log(hist[p], "invalidate")))
  /\ UNCHANGED <<data, mode, keychain, ctl, now, issuedAt, prev>>

\* faulty variant of FullAfterRt: the error of request_token is dropped
FullAfterRt_IgnoresError(p) ==
  /\ pc[p] = "full_after_rt"
  /\ Goto(p, "full_callback",
          [fr[p] EXCEPT !.reqtok = Creds(fr[p].ret.key, fr[p].ret.secret)],
          LeaveRt(hist[p]))
  /\ UNCHANGED <<data, mode, keychain, ctl, now, issuedAt, prev>>

\* let request_token = self.request_token(&consumer).await?;
FullAfterRt(p) ==
  /\ pc[p] = "full_after_rt"
  /\ IF ~fr[p].ret.ok
       THEN Ret(p, fr[p].ret, ClearAt(fr[p]), LeaveRt(hist[p]))
       ELSE Goto(p, "full_callback",
                 [fr[p] EXCEPT !.reqtok = Creds(fr[p].ret.key, fr[p].ret.secret)],
                 LeaveRt(hist[p]))
  /\ UNCHANGED <<data, mode, keychain, ctl, now, issuedAt, prev>>

\* faulty variant of FullCallback: the URL carries the token's secret
FullCallback_SecretInUrl(p) ==
  /\ pc[p] = "full_callback"
  /\ \E c \in CallbackOutcomes :
       LET h == [hist[p] EXCEPT
                   !.cbUrl = authorize_url(fr[p].atcons.key, fr[p].reqtok.secret),
                   !.cbPin = c.pin]
       IN IF ~c.ok
            THEN Ret(p, ErrOf("callback failed"), ClearAt(fr[p]),
                     Log(h, "callback_err"))
            ELSE Goto(p, "create_fetch", [fr[p] EXCEPT !.pin = c.pin],
                      Log(h, "callback_ok"))
  /\ UNCHANGED <<data, mode, keychain, ctl, now, issuedAt, prev>>

\* faulty variant of FullCallback: a callback that failed is asked once more
FullCallback_AsksAgain(p) ==
  /\ pc[p] = "full_callback"
  /\ \E c \in CallbackOutcomes :
       LET h == [hist[p] EXCEPT
                   !.cbUrl = authorize_url(fr[p].atcons.key, fr[p].reqtok.key),
                   !.cbPin = c.pin]
       IN IF ~c.ok
            THEN IF Len(SelectSeq(hist[p].trace,
                                  LAMBDA e : e = "callback_err")) = 0
                   THEN Goto(p, "full_callback", fr[p], Log(h, "callback_err"))
                   ELSE Ret(p, ErrOf("callback failed"), ClearAt(fr[p]),
                            Log(h, "callback_err"))
            ELSE Goto(p, "create_fetch", [fr[p] EXCEPT !.pin = c.pin],
                      Log(h, "callback_ok"))
  /\ UNCHANGED <<data, mode, keychain, ctl, now, issuedAt, prev>>

\* callback.verifier_code(&auth_url).await?
FullCallback(p) ==
  /\ pc[p] = "full_callback"
  /\ \E c \in CallbackOutcomes :
       LET h == [hist[p] EXCEPT
                   !.cbUrl = authorize_url(fr[p].atcons.key, fr[p].reqtok.key),
                   !.cbPin = c.pin]
       IN IF ~c.ok
            THEN Ret(p, ErrOf("callback failed"), ClearAt(fr[p]),
                     Log(h, "callback_err"))
            ELSE Goto(p, "create_fetch", [fr[p] EXCEPT !.pin = c.pin],
                      Log(h, "callback_ok"))
  /\ UNCHANGED <<data, mode, keychain, ctl, now, issuedAt, prev>>

\* faulty variant of CreateFetch: the exchange is signed as the renewal is,
\* without the verifier
CreateFetch_NoVerifier(p) ==
  /\ pc[p] = "create_fetch"
  /\ \E o \in OAuthOutcomes :
       LET sr == send_request(o)
           parsed == FromBytes(sr.body)
           h == [hist[p] EXCEPT
                   !.authStatus = o.status,
                   !.exchange = <<fr[p].atcons, fr[p].reqtok, fr[p].pin>>,
                   !.auth = Authorization("access_token", fr[p].atcons,
                                          Some(fr[p].reqtok), None, None)]
       IN IF sr.panic THEN Panic(p, Log(h, "create_panic"))
          ELSE IF ~parsed.ok
            THEN Ret(p, parsed, ClearAt(fr[p]), Log(h, "create_err"))
          ELSE Goto(p, "create_put_key",
                    [fr[p] EXCEPT !.creds = Creds(parsed.key, parsed.secret)],
                    [Log(h, "create_ok") EXCEPT
                       !.issued = Creds(parsed.key, parsed.secret)])
  /\ UNCHANGED <<data, mode, keychain, ctl, now, issuedAt, prev>>

CreateFetch(p) ==
  /\ pc[p] = "create_fetch"
  /\ \E o \in OAuthOutcomes :
       LET sr == send_request(o)
           parsed == FromBytes(sr.body)
           h == [hist[p] EXCEPT
                   !.authStatus = o.status,
                   !.exchange = <<fr[p].atcons, fr[p].reqtok, fr[p].pin>>,
                   !.auth = Authorization("access_token", fr[p].atcons,
                                          Some(fr[p].reqtok),
                                          Some(fr[p].pin), None)]
       IN IF sr.panic THEN Panic(p, Log(h, "create_panic"))
          ELSE IF ~parsed.ok
            THEN Ret(p, parsed, ClearAt(fr[p]), Log(h, "create_err"))
          ELSE Goto(p, "create_put_key",
                    [fr[p] EXCEPT !.creds = Creds(parsed.key, parsed.secret)],
                    [Log(h, "create_ok") EXCEPT
                       !.issued = Creds(parsed.key, parsed.secret)])
  /\ UNCHANGED <<data, mode, keychain, ctl, now, issuedAt, prev>>

CreatePutKey(p) ==
  /\ pc[p] = "create_put_key"
  /\ data' = MemPut(data, ns, ACCESS_TOKEN_KEY, fr[p].creds.key)
  /\ Goto(p, "create_put_secret", fr[p], hist[p])
  /\ UNCHANGED <<mode, keychain, ctl, now, issuedAt, prev>>

CreatePutSecret(p) ==
  /\ pc[p] = "create_put_secret"
  /\ data' = MemPut(data, ns, ACCESS_TOKEN_SECRET, fr[p].creds.secret)
  /\ Ret(p, OkPair(fr[p].creds.key, fr[p].creds.secret), ClearAt(fr[p]),
         hist[p])
  /\ UNCHANGED <<mode, keychain, ctl, now, issuedAt, prev>>

-----------------------------------------------------------------------------
(* Session::do_send *)

\* send awaits do_send, which first awaits consumer
EnterDoSend(p, retTo, f, h) ==
  /\ Step(p, "cons_key", <<"ds_after_consumer", retTo>> \o stack[p], f,
          [h EXCEPT !.attempts = @ + 1])
  /\ UNCHANGED result

ClearDs(f) == [f EXCEPT !.consumer = NoCreds, !.acctok = NoCreds]

\* faulty variant of DoSendAfterConsumer: access_token is awaited under a
\* lock of the Session, so one caller at a time resolves the credentials
DoSendAfterConsumer_Serialized(p) ==
  /\ pc[p] = "ds_after_consumer"
  /\ IF ~fr[p].ret.ok
       THEN Ret(p, fr[p].ret, ClearDs(fr[p]), hist[p])
       ELSE /\ \A q \in Procs \ {p} :
                 \A i \in 1..Len(stack[q]) : stack[q][i] # "ds_after_at"
            /\ Step(p, "cons_key",
                    <<"at_after_consumer", "ds_after_at">> \o stack[p],
                    [fr[p] EXCEPT !.consumer = Creds(fr[p].ret.key, fr[p].ret.secret)],
                    [hist[p] EXCEPT !.trace = <<>>, !.atEntry = data])
            /\ UNCHANGED result
  /\ UNCHANGED <<data, mode, keychain, ctl, now, issuedAt, prev>>

\* let consumer = self.consumer().await?; then access_token is awaited,
\* which itself first awaits consumer
DoSendAfterConsumer(p) ==
  /\ pc[p] = "ds_after_consumer"
  /\ IF ~fr[p].ret.ok
       THEN Ret(p, fr[p].ret, ClearDs(fr[p]), hist[p])
       ELSE Step(p, "cons_key",
                 <<"at_after_consumer", "ds_after_at">> \o stack[p],
                 [fr[p] EXCEPT !.consumer = Creds(fr[p].ret.key, fr[p].ret.secret)],
                 [hist[p] EXCEPT !.trace = <<>>, !.atEntry = data])
            /\ UNCHANGED result
  /\ UNCHANGED <<data, mode, keychain, ctl, now, issuedAt, prev>>

\* faulty variant of DoSendAfterAccessToken: the error of access_token is
\* dropped and the request is signed with an empty token
DoSendAfterAccessToken_IgnoresError(p) ==
  /\ pc[p] = "ds_after_at"
  /\ Goto(p, "ds_transmit",
          [fr[p] EXCEPT !.acctok = Creds(fr[p].ret.key, fr[p].ret.secret)],
          [hist[p] EXCEPT !.trace = <<>>, !.atEntry = EmptyMap,
                          !.issued = NoCreds, !.authStatus = 0,
                          !.cbUrl = <<>>, !.cbPin = "", !.exchange = <<>>])
  /\ UNCHANGED <<data, mode, keychain, ctl, now, issuedAt, prev>>

\* let access_token = self.access_token(callback.clone()).await?; then the
\* request is built and signed
DoSendAfterAccessToken(p) ==
  /\ pc[p] = "ds_after_at"
  /\ LET h == [hist[p] EXCEPT !.trace = <<>>, !.atEntry = EmptyMap,
                              !.issued = NoCreds, !.authStatus = 0,
                              !.cbUrl = <<>>, !.cbPin = "",
                              !.exchange = <<>>, !.afterRejected = None]
     IN IF ~fr[p].ret.ok
          THEN Ret(p, fr[p].ret, ClearDs(fr[p]), hist[p])
          ELSE Goto(p, "ds_transmit",
                    [fr[p] EXCEPT !.acctok = Creds(fr[p].ret.key, fr[p].ret.secret)],
                    [h EXCEPT !.auth =
                       Authorization("api", fr[p].consumer,
                                     Some(Creds(fr[p].ret.key, fr[p].ret.secret)),
                                     None, None)])
  /\ UNCHANGED <<data, mode, keychain, ctl, now, issuedAt, prev>>

\* let resp = self.client.request(req).await?;
DoSendTransmit(p) ==
  /\ pc[p] = "ds_transmit"
  /\ \E o \in ApiOutcomes :
       IF o.kind = "transport"
         THEN Ret(p, ErrOf("transport error"), ClearDs(fr[p]),
                  [hist[p] EXCEPT !.apiTx = @ + 1, !.auth = NoAuth])
         ELSE Ret(p, OkUnit, [ClearDs(fr[p]) EXCEPT !.dsresp = o],
                  [hist[p] EXCEPT !.apiTx = @ + 1,
                                  !.auth = NoAuth,
                                  !.statuses = Append(@, o.status),
                                  !.lastResp = o])
  /\ UNCHANGED <<data, mode, keychain, ctl, now, issuedAt, prev>>

-----------------------------------------------------------------------------
(* Session::send *)

CallSend(p) ==
  /\ pc[p] = "idle"
  /\ EnterDoSend(p, "send_after_1", InitFrame, [InitHist EXCEPT !.op = "send",
                                !.afterCancel = prev[p].cancelled])
  /\ prev' = [prev EXCEPT ![p] = NoPrev]
  /\ UNCHANGED <<data, mode, keychain, ctl, now, issuedAt>>

\* the caller takes what a send returned and calls send again at once
SendAgain(p) ==
  /\ pc[p] = "done" /\ hist[p].op = "send"
  /\ LET k == MemGet(data, ns, ACCESS_TOKEN_KEY)
         v == MemGet(data, ns, ACCESS_TOKEN_SECRET)
     IN Step(p, "cons_key", <<"ds_after_consumer", "send_after_1">>, InitFrame,
             [InitHist EXCEPT
                !.op = "send", !.attempts = 1,
                !.afterCancel = result[p].kind = "cancelled",
                !.afterRejected =
                  IF hist[p].statuses = <<401, 401>> /\ IsSome(k) /\ IsSome(v)
                    THEN Some(Creds(Unwrap(k), Unwrap(v)))
                    ELSE None])
  /\ result' = [result EXCEPT ![p] = NoResult]
  /\ prev' = [prev EXCEPT ![p] = NoPrev]
  /\ UNCHANGED <<data, mode, keychain, ctl, now, issuedAt>>

\* faulty variant of SendAfterFirst: a failed first attempt invalidates the
\* credentials and is tried again, as a 401 is
SendAfterFirst_ReauthOnError(p) ==
  /\ pc[p] = "send_after_1"
  /\ LET f == [fr[p] EXCEPT !.resp = fr[p].dsresp, !.dsresp = NoResp]
     IN IF ~fr[p].ret.ok \/ f.resp.status = 401
          THEN CallFn(p, "inv", "send_after_inv",
                      [f EXCEPT !.invi = 1],
                      [hist[p] EXCEPT !.sendInv = @ + 1])
          ELSE Goto(p, "send_finish", f, hist[p])
  /\ UNCHANGED <<data, mode, keychain, ctl, now, issuedAt, prev>>

\* faulty variant of SendAfterFirst: a failed first attempt is tried again
SendAfterFirst_RetriesError(p) ==
  /\ pc[p] = "send_after_1"
  /\ IF ~fr[p].ret.ok
       THEN EnterDoSend(p, "send_after_2", fr[p], hist[p])
       ELSE LET f == [fr[p] EXCEPT !.resp = fr[p].dsresp, !.dsresp = NoResp]
            IN IF f.resp.status = 401
                 THEN CallFn(p, "inv", "send_after_inv",
                             [f EXCEPT !.invi = 1],
                             [hist[p] EXCEPT !.sendInv = @ + 1])
                 ELSE Goto(p, "send_finish", f, hist[p])
  /\ UNCHANGED <<data, mode, keychain, ctl, now, issuedAt, prev>>

\* faulty variant of SendAfterFirst: every failure status is retried
SendAfterFirst_RetryAnyFailure(p) ==
  /\ pc[p] = "send_after_1"
  /\ IF ~fr[p].ret.ok
       THEN Finish(p, SendErr(fr[p].ret.err), hist[p])
       ELSE LET f == [fr[p] EXCEPT !.resp = fr[p].dsresp, !.dsresp = NoResp]
            IN IF f.resp.status \div 100 # 2
                 THEN CallFn(p, "inv", "send_after_inv",
                             [f EXCEPT !.invi = 1],
                             [hist[p] EXCEPT !.sendInv = @ + 1])
                 ELSE Goto(p, "send_finish", f, hist[p])
  /\ UNCHANGED <<data, mode, keychain, ctl, now, issuedAt, prev>>

\* let mut resp = self.do_send(..).await?; and the test for 401
SendAfterFirst(p) ==
  /\ pc[p] = "send_after_1"
  /\ IF ~fr[p].ret.ok
       THEN Finish(p, SendErr(fr[p].ret.err), hist[p])
       ELSE LET f == [fr[p] EXCEPT !.resp = fr[p].dsresp, !.dsresp = NoResp]
            IN IF f.resp.status = 401
                 THEN CallFn(p, "inv", "send_after_inv",
                             [f EXCEPT !.invi = 1],
                             [hist[p] EXCEPT !.sendInv = @ + 1,
                                             !.cached = FALSE])
                 ELSE Goto(p, "send_finish", f, hist[p])
  /\ UNCHANGED <<data, mode, keychain, ctl, now, issuedAt, prev>>

\* self.invalidate().await?; then the second do_send
SendAfterInvalidate(p) ==
  /\ pc[p] = "send_after_inv"
  /\ IF ~fr[p].ret.ok
       THEN Finish(p, SendErr(fr[p].ret.err), hist[p])
       ELSE EnterDoSend(p, "send_after_2", fr[p], hist[p])
  /\ UNCHANGED <<data, mode, keychain, ctl, now, issuedAt, prev>>

\* faulty variant of SendAfterSecond: resp keeps the first response
SendAfterSecond_KeepsFirst(p) ==
  /\ pc[p] = "send_after_2"
  /\ IF ~fr[p].ret.ok
       THEN Finish(p, SendErr(fr[p].ret.err), hist[p])
       ELSE Goto(p, "send_finish", [fr[p] EXCEPT !.dsresp = NoResp], hist[p])
  /\ UNCHANGED <<data, mode, keychain, ctl, now, issuedAt, prev>>

\* faulty variant of SendAfterSecond: a second 401 drops the access token
\* key again
SendAfterSecond_DropsToken(p) ==
  /\ pc[p] = "send_after_2"
  /\ IF ~fr[p].ret.ok
       THEN Finish(p, SendErr(fr[p].ret.err), hist[p])
       ELSE Goto(p, "send_finish",
                 [fr[p] EXCEPT !.resp = fr[p].dsresp, !.dsresp = NoResp],
                 hist[p])
  /\ data' = IF fr[p].ret.ok /\ fr[p].dsresp.status = 401
               THEN MemDel(data, ns, ACCESS_TOKEN_KEY).data ELSE data
  /\ UNCHANGED <<mode, keychain, ctl, now, issuedAt, prev>>

\* resp = self.do_send(..).await?;
SendAfterSecond(p) ==
  /\ pc[p] = "send_after_2"
  /\ IF ~fr[p].ret.ok
       THEN Finish(p, SendErr(fr[p].ret.err), hist[p])
       ELSE Goto(p, "send_finish",
                 [fr[p] EXCEPT !.resp = fr[p].dsresp, !.dsresp = NoResp],
                 hist[p])
  /\ UNCHANGED <<data, mode, keychain, ctl, now, issuedAt, prev>>

\* faulty variant of SendFinish: a response that is not a success makes
\* the Session forget its access token
SendFinish_ForgetsOnError(p) ==
  /\ pc[p] = "send_finish"
  /\ \E b \in BodyOutcomes :
       Finish(p, Classify(fr[p].resp, b), [hist[p] EXCEPT !.lastBody = b])
  /\ data' = IF fr[p].resp.status \div 100 # 2
               THEN MemDel(MemDel(data, ns, ACCESS_TOKEN_KEY).data, ns,
                           ACCESS_TOKEN_SECRET).data
               ELSE data
  /\ UNCHANGED <<mode, keychain, ctl, now, issuedAt, prev>>

\* the body is aggregated and the response is turned into the result
SendFinish(p) ==
  /\ pc[p] = "send_finish"
  /\ \E b \in BodyOutcomes :
       Finish(p, Classify(fr[p].resp, b), [hist[p] EXCEPT !.lastBody = b])
  /\ UNCHANGED <<data, mode, keychain, ctl, now, issuedAt, prev>>

-----------------------------------------------------------------------------
(* The caller *)

\* the caller takes the result; it may call again
Complete(p) ==
  /\ pc[p] = "done"
  /\ Step(p, "idle", <<>>, InitFrame, InitHist)
  /\ result' = [result EXCEPT ![p] = NoResult]
  /\ prev' = [prev EXCEPT ![p] =
                IF hist[p].op = "invalidate" /\ result[p].kind = "ok"
                  THEN [inv |-> TRUE, data |-> data, cancelled |-> FALSE]
                  ELSE [NoPrev EXCEPT !.cancelled = result[p].kind = "cancelled"]]
  /\ UNCHANGED <<data, mode, keychain, ctl, now, issuedAt>>

Caller(p) ==
  \/ CallInitialize(p) \/ InitializePutKey(p) \/ InitializePutSecret(p)
  \/ CallInvalidate(p) \/ invalidate(p) \/ InvalidateReturn(p)
  \/ ConsumerGetKey(p) \/ ConsumerGetSecret(p)
  \/ RequestTokenGetKey(p) \/ RequestTokenGetSecret(p)
  \/ RequestTokenGetTs(p) \/ RequestTokenFetch(p)
  \/ RequestTokenPutKey(p) \/ RequestTokenPutSecret(p)
  \/ RequestTokenPutTs(p)
  \/ AccessTokenAfterConsumer(p) \/ AccessTokenGetKey(p)
  \/ AccessTokenGetSecret(p) \/ AccessTokenAfterRt(p)
  \/ AccessTokenAfterRenew(p)
  \/ RenewFetch(p) \/ RenewPutKey(p) \/ RenewPutSecret(p)
  \/ FullAfterInvalidate(p) \/ FullAfterRt(p) \/ FullCallback(p)
  \/ CreateFetch(p) \/ CreatePutKey(p) \/ CreatePutSecret(p)
  \/ DoSendAfterConsumer(p) \/ DoSendAfterAccessToken(p)
  \/ DoSendTransmit(p)
  \/ CallSend(p) \/ SendAfterFirst(p) \/ SendAfterInvalidate(p)
  \/ SendAfterSecond(p) \/ SendFinish(p)
  \/ Complete(p) \/ SendAgain(p)

Next == Tick \/ Caller(1)

Spec == Init /\ [][Next]_vars

-----------------------------------------------------------------------------
(* A Store whose calls can fail.  Store::put, del and get return a Result;  *)
(* the keychain stores return Err when the secret service or the keychain  *)
(* cannot be reached.  Every store call of the Session is followed by `?`  *)
(* (the last del of invalidate is returned as it is), so the function that *)
(* made the call returns the error and the store is as the call found it.  *)

\* the positions whose next step is a call of the store
StorePcs == {"init_put_key", "init_put_secret", "inv", "cons_key",
             "cons_secret", "rt_get_key", "rt_get_secret", "rt_get_ts",
             "rt_put_key", "rt_put_secret", "rt_put_ts", "at_get_key",
             "at_get_secret", "renew_put_key", "renew_put_secret",
             "create_put_key", "create_put_secret"}

\* the locals of the function that returns early are dropped
StoreErrFrame(l, f) ==
  IF l = "inv" THEN [f EXCEPT !.invi = 0]
  ELSE IF l \in {"cons_key", "cons_secret"} THEN [f EXCEPT !.ckey = None]
  ELSE IF l \in {"rt_get_key", "rt_get_secret", "rt_get_ts", "rt_put_key",
                 "rt_put_secret", "rt_put_ts"} THEN ClearRt(f)
  ELSE IF l \in {"at_get_key", "at_get_secret"} THEN ClearAt(f)
  ELSE [f EXCEPT !.creds = NoCreds]

\* the store call about to be made returns Err
StoreFails(p) ==
  /\ pc[p] \in StorePcs
  /\ IF stack[p] = <<>>
       THEN Finish(p, SendErr("store error"), hist[p])
       ELSE Ret(p, ErrOf("store error"), StoreErrFrame(pc[p], fr[p]),
                Log(hist[p], "store_err"))
  /\ UNCHANGED <<data, mode, keychain, ctl, now, issuedAt, prev>>

NextStoreErr == Next \/ StoreFails(1)

SpecStoreErr == Init /\ [][NextStoreErr]_vars

-----------------------------------------------------------------------------
(* Properties of Session::send *)

Pending(p, l) == \E i \in 1..Len(stack[p]) : stack[p][i] = l

FirstStatus(p) ==
  IF Len(hist[p].statuses) >= 1 THEN hist[p].statuses[1] ELSE 0

SecondStatus(p) ==
  IF Len(hist[p].statuses) >= 2 THEN hist[p].statuses[2] ELSE 0

\* C1: one send transmits the API request at most twice; a second attempt
\* (credential resolution, signing, transmission) is made only after a first
\* response with status 401 and after the invalidate that send then calls
\* has returned; after a first response with another status there is no
\* second transmission; a send that got 401 first and returns has made
\* exactly one invalidate call and exactly one more attempt, and a second
\* transmission is made with an access token acquired and stored after that
\* invalidate.
C1_RetryOnce ==
  \A p \in Procs : hist[p].op = "send" =>
    /\ hist[p].apiTx <= 2
    /\ hist[p].attempts <= 2
    /\ hist[p].sendInv <= 1
    /\ hist[p].apiTx <= hist[p].attempts
    /\ (hist[p].sendInv = 1 \/ hist[p].attempts = 2 \/ hist[p].apiTx = 2)
         => (FirstStatus(p) = 401 /\ hist[p].sendInv = 1)
    /\ hist[p].attempts = 2
         => (~Pending(p, "send_after_inv") /\ pc[p] # "send_after_inv")
    /\ (Len(hist[p].statuses) >= 1 /\ FirstStatus(p) # 401)
         => (hist[p].apiTx = 1 /\ hist[p].attempts = 1)
    /\ (pc[p] = "done" /\ result[p].kind # "panic" /\ FirstStatus(p) = 401)
         => hist[p].attempts = 2
    /\ hist[p].apiTx = 2
         => /\ IsSome(MemGet(data, ns, ACCESS_TOKEN_KEY))
            /\ IsSome(MemGet(data, ns, ACCESS_TOKEN_SECRET))

C1_Witness ==
  \E p \in Procs :
    /\ pc[p] = "done" /\ hist[p].op = "send"
    /\ hist[p].statuses = <<401, 200>>
    /\ hist[p].apiTx = 2 /\ hist[p].sendInv = 1
    /\ result[p].kind = "ok"

\* C2: when the first and the retried API response both have status 401,
\* send makes no third transmission and returns an error, never a success.
C2_SecondUnauthorized ==
  \A p \in Procs :
    (hist[p].op = "send" /\ FirstStatus(p) = 401 /\ SecondStatus(p) = 401) =>
      /\ hist[p].apiTx = 2
      /\ pc[p] \in {"send_after_2", "send_finish", "done"}
      /\ result[p].kind \in {"none", "err"}
      /\ pc[p] = "done" => result[p].kind = "err"

C2_Witness ==
  \E p \in Procs :
    /\ pc[p] = "done" /\ hist[p].op = "send"
    /\ hist[p].statuses = <<401, 401>>
    /\ result[p].kind = "err"

\* C3: when the first API response is 401, the retry got as far as a second
\* response, and that response is 2xx and declares application/json or
\* application/xml, send returns what deserializing the body of the second
\* response gives: its payload when the body is a document of the declared
\* type, and otherwise the deserialization error, never an error made from
\* the first response.
C3_RetriedPayload ==
  \A p \in Procs :
    (/\ pc[p] = "done" /\ hist[p].op = "send"
     /\ FirstStatus(p) = 401 /\ SecondStatus(p) \div 100 = 2
     /\ hist[p].lastResp.ct.present /\ hist[p].lastResp.ct.text
     /\ hist[p].lastResp.ct.val \in {"application/json", "application/xml"}
     /\ hist[p].lastBody.read) =>
      LET b == hist[p].lastBody
          declared == IF hist[p].lastResp.ct.val = "application/json"
                        THEN "json" ELSE "xml"
      IN IF b.fmt = declared /\ b.doc = "payload"
           THEN result[p] = [kind |-> "ok", val |-> b.val]
           ELSE result[p] = [kind |-> "err", val |-> declared \o " error"]

C3_Witness ==
  \E p \in Procs :
    /\ pc[p] = "done" /\ hist[p].op = "send"
    /\ hist[p].statuses = <<401, 201>>
    /\ hist[p].lastResp.ct.val = "application/xml"
    /\ hist[p].lastBody.fmt = "xml" /\ hist[p].lastBody.doc = "payload"
    /\ result[p] = [kind |-> "ok", val |-> "a"]

-----------------------------------------------------------------------------
(* Properties of Session::access_token *)

HasConsumer(d) ==
  IsSome(MemGet(d, ns, API_KEY)) /\ IsSome(MemGet(d, ns, SECRET_KEY))

HasAccessToken(d) ==
  /\ IsSome(MemGet(d, ns, ACCESS_TOKEN_KEY))
  /\ IsSome(MemGet(d, ns, ACCESS_TOKEN_SECRET))

NoTokens(d) == \A k \in TokenKeys : MemGet(d, ns, k) = None

IsCallback(e) == e \in {"callback_ok", "callback_err"}

Callbacks(t) == Cardinality({i \in 1..Len(t) : IsCallback(t[i])})

\* C4: an access_token call entered with the consumer pair and both halves
\* of the access token in the namespace calls no OAuth endpoint, does not
\* look for a request token, does not invoke the callback, leaves the store
\* as it is and returns exactly the stored pair.
C4_CachedAccessToken ==
  \A p \in Procs :
    (/\ hist[p].op = "send"
     /\ HasConsumer(hist[p].atEntry) /\ HasAccessToken(hist[p].atEntry)) =>
      /\ hist[p].trace = <<>>
      /\ hist[p].rtNet = 0
      /\ result[p].kind # "panic"
      /\ data = hist[p].atEntry
      /\ pc[p] \in {"cons_key", "cons_secret", "at_after_consumer",
                     "at_get_key", "at_get_secret", "ds_after_at"}
      /\ pc[p] = "ds_after_at" =>
           fr[p].ret =
             OkPair(Unwrap(MemGet(hist[p].atEntry, ns, ACCESS_TOKEN_KEY)),
                    Unwrap(MemGet(hist[p].atEntry, ns, ACCESS_TOKEN_SECRET)))

C4_Witness ==
  \E p \in Procs :
    /\ pc[p] = "ds_after_at" /\ hist[p].op = "send"
    /\ HasConsumer(hist[p].atEntry) /\ HasAccessToken(hist[p].atEntry)
    /\ fr[p].ret = OkPair("tok2", "sec2")

\* C5: in an access_token call the callback is invoked only after a
\* request-token acquisition or a renewal attempt of that call has returned
\* an error; once the renewal has succeeded the callback is not invoked and
\* the call returns the pair the renewal endpoint answered with.
C5_CallbackAfterFailure ==
  \A p \in Procs : hist[p].op = "send" =>
    LET t == hist[p].trace
    IN /\ \A i \in 1..Len(t) :
            IsCallback(t[i]) =>
              \E j \in 1..(i - 1) : t[j] \in {"rt_err", "renew_err"}
       /\ (\E j \in 1..Len(t) : t[j] = "renew_ok") =>
            /\ Callbacks(t) = 0
            /\ t \in {<<"rt_ok", "renew_ok">>, <<"rt_cached", "renew_ok">>}
            /\ pc[p] \in {"renew_put_key", "renew_put_secret",
                           "at_after_renew", "ds_after_at"}
            /\ pc[p] = "ds_after_at" =>
                 fr[p].ret = OkPair(hist[p].issued.key, hist[p].issued.secret)

C5_Witness ==
  \E p \in Procs :
    /\ hist[p].op = "send" /\ pc[p] = "create_fetch"
    /\ hist[p].trace =
         <<"rt_cached", "renew_err", "invalidate", "rt_ok", "callback_ok">>

\* C6, as claimed: an access_token call entered with the consumer pair and
\* no token key in the namespace, and whose renewal attempt fails, has, when
\* it returns, acquired a request token, tried the renewal, run the full
\* flow and invoked the callback exactly once.
C6_CallbackExactlyOnce ==
  \A p \in Procs :
    (/\ hist[p].op = "send" /\ pc[p] = "ds_after_at"
     /\ HasConsumer(hist[p].atEntry) /\ NoTokens(hist[p].atEntry)
     /\ Len(hist[p].trace) >= 2 /\ hist[p].trace[2] = "renew_err") =>
      /\ hist[p].trace[1] = "rt_ok"
      /\ Len(hist[p].trace) >= 3 /\ hist[p].trace[3] = "invalidate"
      /\ Callbacks(hist[p].trace) = 1

\* C6, amended: such a call takes its steps in the order request-token
\* acquisition, renewal attempt, full flow (invalidate, a request token
\* fetched anew, callback, exchange) and in no other; it invokes the
\* callback at most once, and when it is over it has invoked the callback
\* exactly once if the fetch of the full flow gave a request token and not
\* at all otherwise.
C6_FlowOrder ==
  \A p \in Procs :
    (/\ hist[p].op = "send"
     /\ HasConsumer(hist[p].atEntry) /\ NoTokens(hist[p].atEntry)
     /\ Len(hist[p].trace) >= 2
     /\ hist[p].trace[2] \in {"renew_err", "renew_panic"}) =>
      LET t == hist[p].trace
          n == Len(t)
      IN /\ t[1] = "rt_ok"
         /\ n <= 6
         /\ n >= 3 => (t[2] = "renew_err" /\ t[3] = "invalidate")
         /\ n >= 4 => t[4] \in {"rt_ok", "rt_err", "rt_panic"}
         /\ n >= 5 => (t[4] = "rt_ok" /\ IsCallback(t[5]))
         /\ n >= 6 => (t[5] = "callback_ok"
                         /\ t[6] \in {"create_ok", "create_err", "create_panic"})
         /\ Callbacks(t) <= 1
         /\ pc[p] \in {"ds_after_at", "done"} =>
              (Callbacks(t) = 1 <=> (n >= 4 /\ t[4] = "rt_ok"))

C6_Witness ==
  \E p \in Procs :
    /\ hist[p].op = "send" /\ pc[p] = "ds_after_at"
    /\ HasConsumer(hist[p].atEntry) /\ NoTokens(hist[p].atEntry)
    /\ hist[p].trace = <<"rt_ok", "renew_err", "invalidate", "rt_ok",
                          "callback_ok", "create_ok">>
    /\ fr[p].ret.ok

-----------------------------------------------------------------------------
(* Properties of Session::request_token *)

RtReturned(p) == pc[p] \in {"at_after_rt", "full_after_rt"}

RtStored(d) ==
  /\ IsSome(MemGet(d, ns, REQUEST_TOKEN_KEY))
  /\ IsSome(MemGet(d, ns, REQUEST_TOKEN_SECRET))
  /\ IsSome(MemGet(d, ns, REQUEST_TOKEN_CREATED))

\* C7: a request_token call that finds a key, a secret and an issued date
\* stored, the date being the date the call takes as today's when it looks,
\* calls no endpoint, writes nothing and returns the stored pair; when the
\* stored date is of an earlier day it calls the request-token endpoint
\* once, and if it then returns a pair, that is the pair the endpoint
\* answered with, it is what the store now holds as key and secret, and the
\* stored date is the date of the moment of the stamp.
C7_RequestTokenCache ==
  \A p \in Procs :
    (RtReturned(p) /\ RtStored(hist[p].rtEntry)) =>
      LET e == hist[p].rtEntry
          k == Unwrap(MemGet(e, ns, REQUEST_TOKEN_KEY))
          s == Unwrap(MemGet(e, ns, REQUEST_TOKEN_SECRET))
          stored == Unwrap(ParseDate(Unwrap(MemGet(e, ns, REQUEST_TOKEN_CREATED))))
          today == NaiveLocal(Today(hist[p].rtLookup))
      IN /\ stored = today =>
              (fr[p].ret = OkPair(k, s) /\ hist[p].rtNet = 0 /\ data = e)
         /\ stored < today =>
              /\ hist[p].rtNet = 1
              /\ fr[p].ret.ok =>
                   /\ fr[p].ret = OkPair(hist[p].issued.key, hist[p].issued.secret)
                   /\ MemGet(data, ns, REQUEST_TOKEN_KEY) = Some(fr[p].ret.key)
                   /\ MemGet(data, ns, REQUEST_TOKEN_SECRET) = Some(fr[p].ret.secret)
                   /\ hist[p].rtStamp >= hist[p].rtLookup
                   /\ MemGet(data, ns, REQUEST_TOKEN_CREATED)
                        = Some(DateTable[NaiveLocal(Today(hist[p].rtStamp)) + 1])

C7_Witness ==
  \E p \in Procs :
    /\ pc[p] = "at_after_rt" /\ RtStored(hist[p].rtEntry)
    /\ MemGet(hist[p].rtEntry, ns, REQUEST_TOKEN_CREATED) = Some("2020-02-29")
    /\ MemGet(hist[p].rtEntry, ns, REQUEST_TOKEN_KEY) = Some("tok1")
    /\ hist[p].rtLookup = 48
    /\ fr[p].ret = OkPair("tok2", "sec2")
    /\ MemGet(data, ns, REQUEST_TOKEN_CREATED) = Some("2020-03-01")

\* C8, as claimed: the date request_token stores with a token is the
\* calendar date in US Eastern time of the moment of the stamp, and a call
\* that finds key, secret and date stored returns the stored token without
\* a fetch exactly when the Eastern date of its lookup is the Eastern date
\* of the stamp, whatever the UTC dates are.
C8_EasternDate ==
  /\ IsSome(MemGet(data, ns, REQUEST_TOKEN_CREATED)) =>
       MemGet(data, ns, REQUEST_TOKEN_CREATED)
         = Some(DateTable[EasternDate(issuedAt) + 1])
  /\ \A p \in Procs :
       /\ (pc[p] = "rt_fetch" /\ RtStored(hist[p].rtEntry)) =>
            EasternDate(hist[p].rtLookup) # EasternDate(issuedAt)
       /\ (RtReturned(p) /\ RtStored(hist[p].rtEntry) /\ hist[p].rtNet = 0) =>
            EasternDate(hist[p].rtLookup) = EasternDate(issuedAt)

-----------------------------------------------------------------------------
(* Properties of Session::invalidate *)

InvalidateReturned(p) ==
  \/ pc[p] \in {"api_ret", "send_after_inv", "full_after_inv"} /\ fr[p].ret.ok
  \/ pc[p] = "done" /\ hist[p].op = "invalidate" /\ result[p].kind = "ok"

\* C9: when invalidate has returned Ok, get gives None for each of the five
\* token keys in the namespace of the session's mode.
C9_InvalidateClears ==
  \A p \in Procs :
    InvalidateReturned(p) =>
      \A k \in TokenKeys : MemGet(data, namespace(mode), k) = None

C9_Witness ==
  \E p \in Procs :
    /\ pc[p] = "done" /\ hist[p].op = "invalidate" /\ result[p].kind = "ok"
    /\ \A k \in TokenKeys : IsSome(MemGet(hist[p].entry, namespace(mode), k))
    /\ HasConsumer(data)

\* C10: an invalidate called right after an invalidate that returned Ok
\* returns Ok too and leaves the store as the first one left it.
C10_InvalidateIdempotent ==
  \A p \in Procs :
    (pc[p] = "done" /\ hist[p].op = "invalidate" /\ prev[p].inv) =>
      /\ result[p].kind = "ok"
      /\ data = prev[p].data
      /\ hist[p].entry = prev[p].data

C10_Witness ==
  \E p \in Procs :
    /\ pc[p] = "done" /\ hist[p].op = "invalidate" /\ prev[p].inv
    /\ result[p].kind = "ok"
    /\ HasConsumer(data)

\* C11, as claimed: when a call of invalidate has returned, with Ok or with
\* the error of a store deletion, the token keys that were stored when it
\* was called are either all removed or all still there.
C11_NeverPartial ==
  \A p \in Procs :
    (pc[p] = "api_ret" /\ hist[p].op = "invalidate") =>
      LET present == {k \in TokenKeys :
                        IsSome(MemGet(hist[p].entry, ns, k))}
          removed == {k \in present : MemGet(data, ns, k) = None}
      IN removed = {} \/ removed = present

-----------------------------------------------------------------------------
(* Properties of the error paths of Session::send *)

\* C12: as long as apikey or secret is not in the namespace, a running send
\* has made no call of an OAuth endpoint or of the API, has not invoked the
\* callback, has not invalidated, is in its first attempt, and its next step
\* leaves the store as it is; when it returns, it returns an error.
C12_MissingConsumer ==
  [][\A p \in Procs :
       (hist[p].op = "send" /\ ~HasConsumer(data)) =>
         /\ hist[p].apiTx = 0 /\ hist[p].statuses = <<>>
         /\ hist[p].rtNet = 0
         /\ \A i \in 1..Len(hist[p].trace) : hist[p].trace[i] = "store_err"
         /\ hist[p].sendInv = 0 /\ hist[p].attempts = 1
         /\ pc[p] \in {"cons_key", "cons_secret", "ds_after_consumer",
                        "send_after_1", "done"}
         /\ pc[p] = "done" => result[p].kind = "err"
         /\ data' = data]_vars

C12_Witness ==
  \E p \in Procs :
    /\ pc[p] = "done" /\ hist[p].op = "send"
    /\ IsSome(MemGet(data, ns, API_KEY))
    /\ MemGet(data, ns, SECRET_KEY) = None
    /\ result[p] = SendErr("secret secret not found")

\* C13: in a send, the API request is transmitted only by the transmit step
\* of do_send, which is reached with the consumer pair and the access-token
\* pair of this attempt, both as stored; the access token is resolved after
\* the consumer pair and before the transmission; send calls invalidate only
\* from the 401 test of the first response and the second attempt starts
\* only after that invalidate has returned.  The steps looked at are those
\* of the call; the step that follows its return is the caller's.
C13_Order ==
  [][\A p \in Procs :
       (hist[p].op = "send" /\ pc[p] # "done") =>
         /\ (hist'[p].op = "send" /\ hist'[p].apiTx # hist[p].apiTx)
              => pc[p] = "ds_transmit"
         /\ pc[p] = "ds_transmit" =>
              /\ fr[p].consumer # NoCreds /\ fr[p].acctok # NoCreds
              /\ MemGet(data, ns, API_KEY) = Some(fr[p].consumer.key)
              /\ MemGet(data, ns, SECRET_KEY) = Some(fr[p].consumer.secret)
              /\ MemGet(data, ns, ACCESS_TOKEN_KEY) = Some(fr[p].acctok.key)
              /\ MemGet(data, ns, ACCESS_TOKEN_SECRET) = Some(fr[p].acctok.secret)
              /\ hist[p].apiTx = hist[p].attempts - 1
         /\ Pending(p, "ds_after_at") =>
              (fr[p].consumer # NoCreds /\ fr[p].acctok = NoCreds)
         /\ (pc[p] = "ds_after_consumer" \/ Pending(p, "ds_after_consumer")) =>
              (fr[p].consumer = NoCreds /\ fr[p].acctok = NoCreds)
         /\ (hist'[p].op = "send" /\ hist'[p].sendInv # hist[p].sendInv) =>
              (pc[p] = "send_after_1" /\ hist[p].statuses = <<401>>
               /\ hist[p].attempts = 1 /\ hist[p].sendInv = 0)
         /\ Pending(p, "send_after_inv") =>
              (hist[p].attempts = 1 /\ hist[p].apiTx = 1
               /\ fr[p].consumer = NoCreds /\ fr[p].acctok = NoCreds)
         /\ hist[p].attempts = 2 =>
              (hist[p].sendInv = 1 /\ FirstStatus(p) = 401
               /\ ~Pending(p, "send_after_inv"))]_vars

C13_Witness ==
  \E p \in Procs :
    /\ pc[p] = "ds_transmit" /\ hist[p].op = "send"
    /\ hist[p].attempts = 2 /\ hist[p].sendInv = 1 /\ hist[p].apiTx = 1
    /\ fr[p].consumer = Creds("ck1", "cs1")
    /\ fr[p].acctok = Creds("tok2", "sec2")

\* C14: a send whose first API response has a status that is neither 2xx
\* nor 401 has transmitted once, is in its only attempt, has not invalidated
\* (the access token that signed the request is still stored) and goes on to
\* the classification of that response only; it returns an error: the one
\* made of the message and code of the error envelope when the body is such
\* an envelope, and the error of reading or deserializing the body otherwise.
C14_ApiError ==
  \A p \in Procs :
    (/\ hist[p].op = "send" /\ Len(hist[p].statuses) >= 1
     /\ FirstStatus(p) \div 100 # 2 /\ FirstStatus(p) # 401) =>
      /\ Len(hist[p].statuses) = 1
      /\ hist[p].apiTx = 1 /\ hist[p].attempts = 1 /\ hist[p].sendInv = 0
      /\ hist[p].trace = <<>>
      /\ HasAccessToken(data)
      /\ pc[p] \in {"send_after_1", "send_finish", "done"}
      /\ pc[p] = "done" =>
           LET b == hist[p].lastBody
           IN /\ result[p].kind = "err"
              /\ (b.read /\ b.fmt = "xml" /\ b.doc = "error")
                   => result[p] = SendErr(b.val)
              /\ (b.read /\ ~(b.fmt = "xml" /\ b.doc = "error"))
                   => result[p] = SendErr("xml error")
              /\ ~b.read => result[p] = SendErr("body error")

C14_Witness ==
  \E p \in Procs :
    /\ pc[p] = "done" /\ hist[p].op = "send"
    /\ hist[p].statuses = <<500>> /\ hist[p].apiTx = 1
    /\ result[p] = SendErr("bad request (code: 100)")

LastStatus(p) ==
  IF hist[p].statuses = <<>> THEN 0
  ELSE hist[p].statuses[Len(hist[p].statuses)]

Declared(p) ==
  hist[p].lastResp.ct.present /\ hist[p].lastResp.ct.text

\* C15: a send that has read the body of its last response returns, for a
\* 2xx status with a declared content type: what the JSON deserializer
\* gives for application/json and what the XML deserializer gives for
\* application/xml, whatever the body looks like, and the unknown content
\* type error for any other declared type, without another attempt; for a
\* status that is not 2xx it returns the error of the status path whatever
\* the content type is.
C15_ContentType ==
  \A p \in Procs :
    (/\ pc[p] = "done" /\ hist[p].op = "send"
     /\ hist[p].statuses # <<>> /\ hist[p].lastBody.read) =>
      LET b == hist[p].lastBody
          ct == hist[p].lastResp.ct.val
      IN /\ hist[p].apiTx = Len(hist[p].statuses)
         /\ hist[p].attempts = Len(hist[p].statuses)
         /\ (LastStatus(p) \div 100 = 2 /\ Declared(p)) =>
              /\ ct = "application/json" =>
                   result[p] = IF b.fmt = "json" /\ b.doc = "payload"
                                 THEN SendOk(b.val) ELSE SendErr("json error")
              /\ ct = "application/xml" =>
                   result[p] = IF b.fmt = "xml" /\ b.doc = "payload"
                                 THEN SendOk(b.val) ELSE SendErr("xml error")
              /\ ct \notin {"application/json", "application/xml"} =>
                   result[p] = SendErr("api responded with unknown content type")
         /\ LastStatus(p) \div 100 # 2 =>
              result[p] = IF b.fmt = "xml" /\ b.doc = "error"
                            THEN SendErr(b.val) ELSE SendErr("xml error")

C15_Witness ==
  \E p \in Procs :
    /\ pc[p] = "done" /\ hist[p].op = "send"
    /\ hist[p].statuses = <<200>> /\ Declared(p)
    /\ hist[p].lastResp.ct.val = "application/json; charset=utf-8"
    /\ hist[p].lastBody.fmt = "json" /\ hist[p].lastBody.doc = "payload"
    /\ result[p] = SendErr("api responded with unknown content type")

-----------------------------------------------------------------------------
(* Properties of the OAuth steps *)

\* C16, as claimed: a call of an OAuth endpoint that fails at transport
\* level makes the operation return an error value, as a non-2xx answer
\* does; the task that called send is never aborted.
C16_TransportIsError ==
  \A p \in Procs :
    /\ result[p].kind # "panic"
    /\ \A i \in 1..Len(hist[p].trace) :
         hist[p].trace[i] \notin {"rt_panic", "renew_panic", "create_panic"}

\* C17: when renew_access_token has returned, then: if the renewal endpoint
\* answered 2xx with a credential pair, the result is that pair and
\* access_token_key and access_token_secret hold exactly it; if the endpoint
\* answered with another status, the result is an error and the two keys
\* are as they were before the call.
C17_Renew ==
  \A p \in Procs :
    (pc[p] = "at_after_renew" /\ hist[p].op = "send") =>
      LET st == hist[p].authStatus
          before == hist[p].atEntry
      IN /\ fr[p].ret.ok <=> (st \div 100 = 2 /\ hist[p].issued # NoCreds
                                /\ hist[p].trace[Len(hist[p].trace)] = "renew_ok")
         /\ fr[p].ret.ok =>
              /\ fr[p].ret = OkPair(hist[p].issued.key, hist[p].issued.secret)
              /\ MemGet(data, ns, ACCESS_TOKEN_KEY) = Some(fr[p].ret.key)
              /\ MemGet(data, ns, ACCESS_TOKEN_SECRET) = Some(fr[p].ret.secret)
         /\ st \div 100 # 2 =>
              /\ ~fr[p].ret.ok
              /\ MemGet(data, ns, ACCESS_TOKEN_KEY)
                   = MemGet(before, ns, ACCESS_TOKEN_KEY)
              /\ MemGet(data, ns, ACCESS_TOKEN_SECRET)
                   = MemGet(before, ns, ACCESS_TOKEN_SECRET)

C17_Witness ==
  \E p \in Procs :
    /\ pc[p] = "at_after_renew" /\ hist[p].op = "send"
    /\ hist[p].authStatus = 200
    /\ fr[p].ret = OkPair("tok2", "sec2")
    /\ MemGet(data, ns, ACCESS_TOKEN_KEY) = Some("tok2")
    /\ MemGet(data, ns, ACCESS_TOKEN_SECRET) = Some("sec2")

InFull(t) == \E k \in 1..Len(t) : t[k] = "invalidate"

\* the steps of the full flow after its invalidate
AfterInv(t) ==
  LET k == CHOOSE k \in 1..Len(t) : t[k] = "invalidate"
  IN SubSeq(t, k + 1, Len(t))

StoredPair(d, k, s) == Creds(Unwrap(MemGet(d, ns, k)), Unwrap(MemGet(d, ns, s)))

\* C18: once the invalidate of full_access_token_flow has returned, the flow
\* goes on in this order and no other: a request token fetched from the
\* endpoint, the callback, the exchange, the two puts of the access token,
\* the return.  Until that fetch has answered no token key is stored; the
\* callback gets the authorize URL of the stored consumer key and the key of
\* the token just fetched; the exchange is signed with the consumer pair,
\* that request token and the verifier the callback returned; no access
\* token is stored before the exchange has succeeded, and the pair returned
\* is the pair the exchange answered with, as stored.
C18_FullFlow ==
  \A p \in Procs :
    (hist[p].op = "send" /\ InFull(hist[p].trace)) =>
      LET t == AfterInv(hist[p].trace)
          n == Len(t)
      IN /\ n <= 3
         /\ n >= 1 => t[1] \in {"rt_ok", "rt_err", "rt_panic"}
         /\ n >= 2 => (t[1] = "rt_ok" /\ IsCallback(t[2]))
         /\ n >= 3 => (t[2] = "callback_ok"
                         /\ t[3] \in {"create_ok", "create_err", "create_panic"})
         /\ (n = 0 /\ pc[p] # "done") => NoTokens(data)
         /\ (n = 0 \/ t[n] # "create_ok") =>
              /\ MemGet(data, ns, ACCESS_TOKEN_KEY) = None
              /\ MemGet(data, ns, ACCESS_TOKEN_SECRET) = None
         /\ (n >= 2) =>
              /\ hist[p].cbUrl = authorize_url(Unwrap(MemGet(data, ns, API_KEY)),
                                               Unwrap(MemGet(data, ns, REQUEST_TOKEN_KEY)))
              /\ n = 2 => MemGet(data, ns, REQUEST_TOKEN_KEY)
                            = Some(hist[p].issued.key)
         /\ (n >= 3) =>
              hist[p].exchange =
                <<StoredPair(data, API_KEY, SECRET_KEY),
                  StoredPair(data, REQUEST_TOKEN_KEY, REQUEST_TOKEN_SECRET),
                  hist[p].cbPin>>
         /\ (n = 3 /\ t[3] = "create_ok" /\ pc[p] = "ds_after_at") =>
              /\ fr[p].ret = OkPair(hist[p].issued.key, hist[p].issued.secret)
              /\ StoredPair(data, ACCESS_TOKEN_KEY, ACCESS_TOKEN_SECRET)
                   = Creds(fr[p].ret.key, fr[p].ret.secret)
         /\ pc[p] \in {"create_put_key", "create_put_secret"}
              => (n = 3 /\ t[3] = "create_ok")

C18_Witness ==
  \E p \in Procs :
    /\ hist[p].op = "send" /\ pc[p] = "ds_after_at"
    /\ hist[p].trace = <<"rt_err", "invalidate", "rt_ok", "callback_ok",
                          "create_ok">>
    /\ hist[p].cbUrl = authorize_url("ck1", "tok1")
    /\ hist[p].exchange = <<Creds("ck1", "cs1"), Creds("tok1", "sec1"), "5678">>
    /\ fr[p].ret = OkPair("tok2", "sec2")

Last(t) == IF t = <<>> THEN "" ELSE t[Len(t)]

\* C19: when the callback of the full flow has returned an error, the
\* access-token endpoint is not called and no access token is stored;
\* access_token, do_send and send each return that error, and send makes no
\* further attempt, so the callback is not invoked again.
C19_CallbackError ==
  \A p \in Procs :
    (hist[p].op = "send" /\ Last(hist[p].trace) = "callback_err") =>
      /\ Callbacks(hist[p].trace) = 1
      /\ hist[p].exchange = <<>>
      /\ MemGet(data, ns, ACCESS_TOKEN_KEY) = None
      /\ MemGet(data, ns, ACCESS_TOKEN_SECRET) = None
      /\ hist[p].apiTx = hist[p].attempts - 1
      /\ pc[p] \in {"ds_after_at", "send_after_1", "send_after_2", "done"}
      /\ pc[p] # "done" => fr[p].ret = ErrOf("callback failed")
      /\ pc[p] = "done" => result[p] = SendErr("callback failed")

C19_Witness ==
  \E p \in Procs :
    /\ pc[p] = "done" /\ hist[p].op = "send"
    /\ Last(hist[p].trace) = "callback_err"
    /\ hist[p].attempts = 2 /\ hist[p].statuses = <<401>>
    /\ result[p] = SendErr("callback failed")

-----------------------------------------------------------------------------
(* Two tasks sharing one Session.  Session::send takes &self, so two calls *)
(* of send can be in flight at once.  The runs looked at are those of an   *)
(* executor with one thread: the calls of the store are synchronous, and   *)
(* a task is switched only where it awaits the network or the user.         *)

\* the positions at which a task waits for the network or the user
AwaitPcs == {"rt_fetch", "renew_fetch", "create_fetch", "full_callback",
             "ds_transmit", "send_finish"}

\* the executor can run p: the other task is waiting or not in a call
Runnable(p) ==
  \A q \in Procs \ {p} : pc[q] \in AwaitPcs \cup {"idle", "done"}

\* the remote side of these runs: the first caller sets the consumer pair
\* up, invalidates and sends, the second one sends; the API answers 200 or
\* 401 without a Content-Type and with a JSON body or one that cannot be
\* read; an OAuth endpoint answers 200 with the first credential pair, or
\* 500; the user types the first verifier or gives up
RaceScope ==
  \A p \in Procs :
    /\ hist[p].op \in {"none", "send"} \cup (IF p = 1 THEN {"initialize", "invalidate"} ELSE {})
    /\ fr[p].args \in {NoCreds, Creds("ck1", "cs1")}
    /\ result[p].kind # "panic"
    /\ \A i \in 1..Len(hist[p].statuses) : hist[p].statuses[i] \in {200, 401}
    /\ hist[p].apiTx = Len(hist[p].statuses)
    /\ hist[p].lastResp.ct = NoResp.ct
    /\ hist[p].lastBody \in
         {NoBody, [read |-> TRUE, fmt |-> "json", doc |-> "payload", val |-> "a"]}
    /\ hist[p].authStatus \in {0, 200, 500}
    /\ hist[p].authStatus = 200 =>
         Last(hist[p].trace) \notin {"rt_err", "renew_err", "create_err"}
    /\ hist[p].issued \in {NoCreds, Creds("tok1", "sec1")}
    /\ hist[p].cbPin \in {"", "1234"}

RaceNext ==
  \/ Tick
  \/ \E p \in Procs : Runnable(p) /\ Caller(p) /\ RaceScope'

SpecRace == Init /\ [][RaceNext]_vars

\* C20: nothing serializes credential resolution between two concurrent
\* send calls on one Session: a caller inside a call never waits for the
\* other one, its next step can be taken wherever the other caller stands,
\* and each credential resolution invokes the callback at most once.  So
\* both can receive 401, both invalidate, and both run the full flow, each
\* invoking the callback once (the user is prompted twice).
C20_NoSerialization ==
  \A p \in Procs :
    /\ pc[p] \notin {"idle", "done"} => ENABLED Caller(p)
    /\ hist[p].op = "send" => Callbacks(hist[p].trace) <= 1

C20_Witness ==
  \A p \in Procs :
    /\ hist[p].op = "send"
    /\ hist[p].statuses = <<401>> /\ hist[p].sendInv = 1
    /\ hist[p].attempts = 2
    /\ InFull(hist[p].trace)
    /\ Callbacks(hist[p].trace) = 1
    /\ Last(hist[p].trace) = "callback_ok" /\ hist[p].cbPin = "1234"
    /\ pc[p] = "create_fetch"

-----------------------------------------------------------------------------
(* A send whose future is dropped.  The calls of the store are synchronous, *)
(* so the future can only be dropped where it is pending: at an awaited    *)
(* network call or at the awaited callback.                                 *)

\* faulty variant of Cancel: the future is dropped at any step, as it could
\* be were the calls of the store awaited too
Cancel_AtAnyStep(p) ==
  /\ pc[p] \notin {"idle", "done"} /\ hist[p].op = "send"
  /\ Finish(p, Cancelled, hist[p])
  /\ UNCHANGED <<data, mode, keychain, ctl, now, issuedAt, prev>>

\* the caller drops the future of send while it is pending
Cancel(p) ==
  /\ pc[p] \in AwaitPcs /\ hist[p].op = "send"
  /\ Finish(p, Cancelled, hist[p])
  /\ UNCHANGED <<data, mode, keychain, ctl, now, issuedAt, prev>>

NextCancel == Next \/ Cancel(1)

SpecCancel == Init /\ [][NextCancel]_vars

\* the access-token pair and the request-token triple are each stored whole
\* or not at all
TokensWhole(d) ==
  /\ IsSome(MemGet(d, ns, ACCESS_TOKEN_KEY))
       <=> IsSome(MemGet(d, ns, ACCESS_TOKEN_SECRET))
  /\ IsSome(MemGet(d, ns, REQUEST_TOKEN_KEY))
       <=> IsSome(MemGet(d, ns, REQUEST_TOKEN_SECRET))
  /\ IsSome(MemGet(d, ns, REQUEST_TOKEN_KEY))
       <=> IsSome(MemGet(d, ns, REQUEST_TOKEN_CREATED))

\* the errors of send that come from an answer of the remote side or of the
\* user
RemoteErrors ==
  {"missing field oauth_token", "callback failed", "transport error",
   "bad request (code: 100)", "body error", "json error", "xml error",
   "api responded with unknown content type"}

\* C21: a send dropped at one of its suspension points leaves the stored
\* tokens whole: the access-token pair is stored with both halves or not at
\* all, and so is the triple of request-token key, secret and issued date.
\* The send that follows runs as any other: when it fails, it fails with an
\* error of its own remote answers, never for what the dropped call left.
C21_Cancellation ==
  \A p \in Procs :
    /\ (\A q \in Procs : pc[q] = "idle") => TokensWhole(data)
    /\ result[p].kind = "cancelled" => TokensWhole(data)
    /\ (hist[p].op = "send" /\ hist[p].afterCancel) =>
         /\ hist[p].attempts = 1 => TokensWhole(hist[p].atEntry)
         /\ result[p].kind = "err" => result[p].val \in RemoteErrors
         /\ result[p].kind # "none" => hist[p].attempts \in {1, 2}

C21_Witness ==
  \E p \in Procs :
    /\ pc[p] = "done" /\ hist[p].op = "send" /\ hist[p].afterCancel
    /\ result[p].kind = "ok"
    /\ hist[p].statuses = <<401, 200>>

-----------------------------------------------------------------------------
(* The calls of a Store, made one after the other on a store that starts   *)
(* empty.                                                                   *)

session == <<data, mode, now, pc, stack, fr, hist, result, issuedAt, prev>>

InitStores ==
  /\ data = EmptyMap
  /\ SessionInit /\ mode = "Sandbox"
  /\ impl \in StoreImpls
  /\ items = NoItems
  /\ last = NoCall
  /\ expect = NoExpect
  /\ ctl = NoCtl

\* a keychain can be out of reach; a map in memory cannot
Reach == IF impl \in {"Memstore", "CtlMemstore"} THEN {TRUE} ELSE BOOLEAN

PutCall ==
  \E nsp \in StoreNamespaces, k \in StoreKeys, v \in StoreValues, up \in Reach :
    LET r == StorePut(impl, items, nsp, k, v, up)
    IN /\ items' = r.items
       /\ last' = [op |-> "put", ns |-> nsp, key |-> k, up |-> up,
                   ok |-> r.ok, val |-> Some(v),
                   held |-> Holds(impl, items, nsp, k),
                   same |-> (r.items = items)]
       /\ expect' = IF r.ok THEN [expect EXCEPT ![<<nsp, k>>] = Known(Some(v))]
                    ELSE expect
       /\ UNCHANGED <<session, ctl, impl>>

DelCall ==
  \E nsp \in StoreNamespaces, k \in StoreKeys, up \in Reach :
    LET ok == StoreDelOk(impl, items, nsp, k, up)
        its == IF ok THEN StoreDel(impl, items, nsp, k) ELSE items
    IN /\ items' = its
       /\ last' = [op |-> "del", ns |-> nsp, key |-> k, up |-> up,
                   ok |-> ok, val |-> None,
                   held |-> Holds(impl, items, nsp, k),
                   same |-> (its = items)]
       /\ expect' = IF ok THEN [expect EXCEPT ![<<nsp, k>>] = Known(None)]
                    ELSE expect
       /\ UNCHANGED <<session, ctl, impl>>

GetCall ==
  \E nsp \in StoreNamespaces, k \in StoreKeys, up \in Reach :
    LET r == StoreGet(impl, items, nsp, k, up)
    IN /\ last' = [op |-> "get", ns |-> nsp, key |-> k, up |-> up,
                   ok |-> r.ok, val |-> r.val,
                   held |-> Holds(impl, items, nsp, k),
                   same |-> TRUE]
       /\ UNCHANGED <<session, ctl, impl, items, expect>>

NextStores == PutCall \/ DelCall \/ GetCall

SpecStores == InitStores /\ [][NextStores]_vars

\* C22: a get that follows the puts and dels that succeeded on its name
\* returns what the last of them says: Some(v) after put(ns, k, v), None
\* after del(ns, k), for every Store of the repository.
C22_RoundTrip ==
  (last.op = "get" /\ last.up /\ expect[<<last.ns, last.key>>].known) =>
    /\ last.ok
    /\ last.val = expect[<<last.ns, last.key>>].val

\* C23: del of a name the store does not hold returns Ok and leaves the
\* store as it was, for every Store of the repository.
C23_DelMissing ==
  (last.op = "del" /\ last.up /\ ~last.held) => (last.ok /\ last.same)

-----------------------------------------------------------------------------
(* A Session built over a store that already holds the credentials of the  *)
(* other mode.                                                              *)

\* the namespace of the mode the Session is not in
OtherNamespace ==
  IF mode = "Sandbox" THEN LIVE_NAMESPACE ELSE SANDBOX_NAMESPACE

\* what the other mode has stored: every key of a Session, with values of
\* its own
OtherKeys == {API_KEY, SECRET_KEY} \cup TokenKeys
OtherStored == [k \in OtherKeys |-> IF k = REQUEST_TOKEN_CREATED
                                      THEN DateTable[2] ELSE "other_" \o k]
OtherValues == {OtherStored[k] : k \in OtherKeys \ {REQUEST_TOKEN_CREATED}}

InitShared ==
  /\ SessionInit
  /\ data = [n \in {OtherNamespace} |-> OtherStored]
  /\ impl = "Memstore"
  /\ items = NoItems
  /\ last = NoCall
  /\ expect = NoExpect
  /\ ctl = NoCtl

SpecShared == InitShared /\ [][Next]_vars

\* the strings a caller holds in its locals
Locals(f) ==
  {f.consumer.key, f.consumer.secret, f.atcons.key, f.atcons.secret,
   f.creds.key, f.creds.secret, f.reqtok.key, f.reqtok.secret,
   f.acctok.key, f.acctok.secret, f.ret.key, f.ret.secret}
    \cup {Unwrap(o) : o \in {f.ckey, f.atk, f.ats, f.rtk, f.rts} \ {None}}

\* C24: a Session reads, writes and deletes in the namespace of its mode
\* only: whatever it is asked to do, every key of the other namespace keeps
\* its value, no namespace but these two comes to exist, and nothing stored
\* under the other namespace is ever read into the Session.
C24_Isolation ==
  /\ DOMAIN data \subseteq {ns, OtherNamespace}
  /\ OtherNamespace \in DOMAIN data /\ data[OtherNamespace] = OtherStored
  /\ ns # OtherNamespace
  /\ ns = (IF mode = "Sandbox" THEN "etradesandbox" ELSE "etrade")
  /\ \A p \in Procs : Locals(fr[p]) \cap OtherValues = {}
  /\ \A p \in Procs :
       (pc[p] = "done" /\ hist[p].op = "send" /\ result[p].kind = "ok")
         => HasConsumer(data)

C24_Witness ==
  \E p \in Procs :
    /\ mode = "Live" /\ pc[p] = "done" /\ hist[p].op = "send"
    /\ result[p].kind = "ok" /\ hist[p].statuses = <<401, 200>>
    /\ HasAccessToken(data)
    /\ data[OtherNamespace] = OtherStored

-----------------------------------------------------------------------------
(* The process stops in the middle of a call and a new Session is built    *)
(* over the store it left.  A Session holds nothing of its own besides the *)
(* store, the mode and the URLs, so the new one starts where the calls of  *)
(* the old one had brought the store.                                       *)

\* the process stops while caller p is inside a call; the new process has
\* a new Session and a caller that has not called yet
Crash(p) ==
  /\ pc[p] \notin {"idle", "done"}
  /\ Step(p, "idle", <<>>, InitFrame, InitHist)
  /\ result' = [result EXCEPT ![p] = NoResult]
  /\ prev' = [prev EXCEPT ![p] = NoPrev]
  /\ UNCHANGED <<data, mode, keychain, ctl, now, issuedAt>>

NextRestart == Next \/ Crash(1)

SpecRestart == Init /\ [][NextRestart]_vars

\* key and secret are the two halves of one answer of an OAuth endpoint
SameIssuance(k, s) ==
  \E i \in 1..Len(TokKeyTable) : k = TokKeyTable[i] /\ s = TokSecretTable[i]

\* C25: however often the process stops and a new Session is built over the
\* store, a pair that credential resolution returns from the store (the
\* cached access token, the cached request token) has the key and the
\* secret of one issuance.
C25_RestartSafe ==
  \A p \in Procs :
    /\ (pc[p] = "ds_after_at" /\ fr[p].ret.ok /\ hist[p].trace = <<>>)
         => SameIssuance(fr[p].ret.key, fr[p].ret.secret)
    /\ (pc[p] \in {"at_after_rt", "full_after_rt"} /\ fr[p].ret.ok
          /\ Last(hist[p].trace) = "rt_cached")
         => SameIssuance(fr[p].ret.key, fr[p].ret.secret)

-----------------------------------------------------------------------------
(* Properties of a failed transmission *)

\* a request of this send was transmitted and got no response
TransportFailed(p) ==
  hist[p].op = "send" /\ hist[p].apiTx > Len(hist[p].statuses)

\* C26: when the transmission of the API request fails without a response,
\* that attempt is the last thing send does: the error goes back through
\* do_send and send, no invalidate is called, no further attempt is made,
\* and no step touches the store, which stays as the credential resolution
\* of the attempt left it.
C26_TransportError ==
  [][\A p \in Procs :
       TransportFailed(p)' =>
         /\ data' = data
         /\ hist'[p].attempts = hist[p].attempts
         /\ hist'[p].sendInv = hist[p].sendInv
         /\ hist'[p].apiTx = hist'[p].attempts
         /\ hist'[p].apiTx = Len(hist'[p].statuses) + 1
         /\ hist'[p].sendInv = hist'[p].attempts - 1
         /\ pc'[p] \in {"ds_after_at", "send_after_1", "send_after_2", "done"}
         /\ pc'[p] = "done" => result'[p] = SendErr("transport error")
         /\ pc'[p] # "done" => fr'[p].ret = ErrOf("transport error")]_vars

C26_Witness ==
  \E p \in Procs :
    /\ pc[p] = "done" /\ TransportFailed(p)
    /\ result[p] = SendErr("transport error")
    /\ hist[p].statuses = <<401>> /\ hist[p].apiTx = 2
    /\ HasAccessToken(data)

-----------------------------------------------------------------------------
(* Properties of the signing of the requests *)

\* the pair stored under two keys of the session's namespace, if both are
StoredCreds(kk, ks) ==
  LET k == MemGet(data, ns, kk)
      v == MemGet(data, ns, ks)
  IN IF IsSome(k) /\ IsSome(v) THEN Some(Creds(Unwrap(k), Unwrap(v)))
     ELSE None

\* C27: each request is signed with what its protocol step requires.  The
\* request-token call carries the stored consumer pair, no token, no
\* verifier and the callback oob; the renewal the consumer pair and the
\* stored request token, no verifier; the exchange the consumer pair, the
\* stored request token and the verifier the callback returned; an API
\* request the consumer pair and the stored access token, neither callback
\* nor verifier.  No other step builds an Authorization.
C27_Signing ==
  [][\A p \in Procs :
       LET a == hist'[p].auth
           consumer == Unwrap(StoredCreds(API_KEY, SECRET_KEY))
           reqtok == StoredCreds(REQUEST_TOKEN_KEY, REQUEST_TOKEN_SECRET)
           acctok == StoredCreds(ACCESS_TOKEN_KEY, ACCESS_TOKEN_SECRET)
       IN IF pc'[p] = pc[p] THEN a = hist[p].auth
          ELSE IF pc[p] = "rt_fetch"
            THEN a = Authorization("request_token", consumer, None, None,
                                   Some("oob"))
          ELSE IF pc[p] = "renew_fetch"
            THEN /\ IsSome(reqtok)
                 /\ a = Authorization("renew_access_token", consumer, reqtok,
                                      None, None)
          ELSE IF pc[p] = "create_fetch"
            THEN /\ IsSome(reqtok) /\ hist[p].cbPin # ""
                 /\ a = Authorization("access_token", consumer, reqtok,
                                      Some(hist[p].cbPin), None)
          ELSE IF pc[p] = "ds_after_at" /\ pc'[p] = "ds_transmit"
            THEN /\ IsSome(acctok)
                 /\ a = Authorization("api", consumer, acctok, None, None)
          ELSE a \in {hist[p].auth, NoAuth}]_vars

\* an API request signed after a 401: the credentials were invalidated, a
\* request token fetched, the renewal refused and the exchange made
C27_Witness ==
  \E p \in Procs :
    /\ pc[p] = "ds_transmit" /\ hist[p].statuses = <<401>>
    /\ hist[p].auth = Authorization("api", Creds("ck1", "cs1"),
                                    Some(Creds("tok2", "sec2")), None, None)
    /\ MemGet(data, ns, REQUEST_TOKEN_KEY) = Some("tok1")

-----------------------------------------------------------------------------
(* Properties of a refused request-token call *)

\* C28: when the request-token endpoint answers with a status outside 2xx,
\* request_token returns an error and leaves the store as it found it: none
\* of request_token_key, request_token_secret and request_token_ts is
\* written, and a stale request token stays stored, date included.
C28_RequestTokenRefused ==
  \A p \in Procs :
    (RtReturned(p) /\ hist[p].rtNet = 1 /\ hist[p].authStatus \div 100 # 2) =>
      /\ ~fr[p].ret.ok
      /\ Last(hist[p].trace) = "rt_err"
      /\ data = hist[p].rtEntry

C28_Witness ==
  \E p \in Procs :
    /\ pc[p] = "at_after_rt" /\ hist[p].rtNet = 1 /\ hist[p].authStatus = 500
    /\ ~fr[p].ret.ok
    /\ hist[p].rtLookup = 48
    /\ MemGet(data, ns, REQUEST_TOKEN_KEY) = Some("tok1")
    /\ MemGet(data, ns, REQUEST_TOKEN_SECRET) = Some("sec1")
    /\ MemGet(data, ns, REQUEST_TOKEN_CREATED) = Some("2020-02-29")

-----------------------------------------------------------------------------
(* Properties of a failing deletion of invalidate *)

\* C29, as claimed: a deletion of invalidate that fails does not end the
\* call; every remaining deletion is still attempted, so invalidate returns
\* an error only once its fifth deletion has been attempted.
C29_AllDeletionsAttempted ==
  [][\A p \in Procs :
       (pc[p] = "inv" /\ pc'[p] # "inv" /\ ~fr'[p].ret.ok) =>
         fr[p].invi = Len(InvalidateOrder)]_vars

-----------------------------------------------------------------------------
(* Properties of the end of Session::send *)

\* the calls of the three OAuth endpoints among the steps of one
\* access_token call
EndpointCalls(t) ==
  SelectSeq(t, LAMBDA e : e \in {"rt_ok", "rt_err", "rt_panic",
                                 "renew_ok", "renew_err", "renew_panic",
                                 "create_ok", "create_err", "create_panic"})

\* C30, as claimed: a send makes at most two attempts and two API
\* transmissions, each of its credential resolutions calls the OAuth
\* endpoints at most four times, and when the send has ended it has
\* returned a value or an error to its caller.
C30_SendReturns ==
  \A p \in Procs :
    hist[p].op = "send" =>
      /\ hist[p].attempts <= 2
      /\ hist[p].apiTx <= 2
      /\ Len(EndpointCalls(hist[p].trace)) <= 4
      /\ pc[p] = "done" => result[p].kind \in {"ok", "err"}

-----------------------------------------------------------------------------
(* The legacy etradectl binary (etradectl/src/main.rs) *)

NAMESPACE == "etradesandbox"

\* etradectl starts over a store that holds any of the consumer pair and
\* an access token
InitCtl ==
  /\ SessionInit /\ mode = "Sandbox"
  /\ \E S \in SUBSET {API_KEY, SECRET_KEY, ACCESS_TOKEN_KEY,
                       ACCESS_TOKEN_SECRET} :
       data = [n \in {NAMESPACE} |->
                 [k \in S |-> IF k = API_KEY THEN "ck1"
                              ELSE IF k = SECRET_KEY THEN "cs1"
                              ELSE IF k = ACCESS_TOKEN_KEY THEN "tok1"
                              ELSE "sec1"]]
  /\ impl = "Memstore"
  /\ items = NoItems
  /\ last = NoCall
  /\ expect = NoExpect
  /\ ctl = NoCtl

\* what AuthenticatedClient::renew_access_token can give: a token, the
\* error of a status, an error without a status, or an error of
\* parse_oauth_token that is no reqwest error
RenewOutcomes ==
  {[kind |-> "token", status |-> 200, id |-> i] : i \in TokIds}
    \cup {[kind |-> "status", status |-> st, id |-> 0] : st \in {401, 500}}
    \cup {[kind |-> k, status |-> 0, id |-> 0] : k \in {"nostatus", "parse"}}

\* what authenticate_client can meet: no secret service (expect), a failing
\* request_token, a failing read of the pin, a failing access_token, or the
\* two tokens
AuthenticateOutcomes ==
  {[kind |-> k, rt |-> 0, at |-> 0] :
     k \in {"panic", "request_token", "stdin", "access_token"}}
    \cup {[kind |-> "tokens", rt |-> i, at |-> j] : i \in TokIds, j \in TokIds}

TokenOf(i) == Creds(TokKeyTable[i], TokSecretTable[i])

CtlEnd(r) == [ctl EXCEPT !.pc = "done", !.result = r]

\* main, lines 30-53: the consumer pair and the access token are read; a
\* stored access token makes the client, without a request token
CtlStartup ==
  /\ ctl.pc = "start"
  /\ LET ck == MemGet(data, NAMESPACE, API_KEY)
         cs == MemGet(data, NAMESPACE, SECRET_KEY)
         ak == MemGet(data, NAMESPACE, ACCESS_TOKEN_KEY)
         as == MemGet(data, NAMESPACE, ACCESS_TOKEN_SECRET)
     IN ctl' = IF ck = None \/ cs = None THEN CtlEnd("secret not found")
               ELSE IF IsSome(ak) /\ IsSome(as)
                 THEN [ctl EXCEPT !.pc = "loop",
                                  !.client = [rt |-> Creds("", ""),
                                              at |-> Creds(Unwrap(ak), Unwrap(as))]]
               ELSE [ctl EXCEPT !.pc = "auth"]
  /\ UNCHANGED <<session, keychain>>

\* faulty variant of CtlLoop: a fourth attempt is allowed
CtlLoop_FourAttempts ==
  /\ ctl.pc = "loop"
  /\ ctl' = IF ctl.cnt > 3
              THEN CtlEnd("exhausted all retries for refreshing the credentials")
              ELSE [ctl EXCEPT !.cnt = @ + 1, !.pc = "call"]
  /\ UNCHANGED <<session, keychain>>

\* the head of the loop, lines 57-61
CtlLoop ==
  /\ ctl.pc = "loop"
  /\ ctl' = IF ctl.cnt > 2
              THEN CtlEnd("exhausted all retries for refreshing the credentials")
              ELSE [ctl EXCEPT !.cnt = @ + 1, !.pc = "call"]
  /\ UNCHANGED <<session, keychain>>

\* client.account_list().await and the match on its result, lines 62-87;
\* account_list gives the accounts (200), the error of error_for_status
\* with the status of the answer, or an error without a status (0: the
\* request not sent, the body not decoded)
CtlAccountList ==
  /\ ctl.pc = "call"
  /\ \E o \in {200, 401, 500, 0} :
       LET c == [ctl EXCEPT !.calls = Append(@, o)]
       IN ctl' = IF o = 200 THEN [c EXCEPT !.pc = "balances"]
                 ELSE IF o = 401
                   THEN [c EXCEPT !.pc = "renew", !.refreshes = @ + 1]
                 ELSE [c EXCEPT !.pc = "done", !.result = "http error"]
  /\ UNCHANGED <<session, keychain>>

\* renew_access_token of main.rs, lines 101-124, up to authenticate_client
CtlRenew ==
  /\ ctl.pc = "renew"
  /\ \E o \in RenewOutcomes :
       IF o.kind = "token"
         THEN /\ data' = MemPut(MemPut(data, NAMESPACE, ACCESS_TOKEN_KEY,
                                       TokenOf(o.id).key),
                                NAMESPACE, ACCESS_TOKEN_SECRET,
                                TokenOf(o.id).secret)
              /\ ctl' = [ctl EXCEPT !.pc = "loop", !.client.at = TokenOf(o.id)]
         ELSE /\ data' = data
              /\ ctl' = IF o.status = 401 THEN [ctl EXCEPT !.pc = "auth"]
                        ELSE CtlEnd("renewal error")
  /\ UNCHANGED <<mode, now, pc, stack, fr, hist, result, issuedAt, prev,
                 keychain>>

\* authenticate_client, lines 126-166
CtlAuthenticate ==
  /\ ctl.pc = "auth"
  /\ \E o \in AuthenticateOutcomes :
       IF o.kind = "tokens"
         THEN /\ data' =
                   MemPut(MemPut(MemPut(MemPut(data,
                     NAMESPACE, ACCESS_TOKEN_KEY, TokenOf(o.at).key),
                     NAMESPACE, ACCESS_TOKEN_SECRET, TokenOf(o.at).secret),
                     NAMESPACE, REQUEST_TOKEN_KEY, TokenOf(o.rt).key),
                     NAMESPACE, REQUEST_TOKEN_SECRET, TokenOf(o.rt).secret)
              /\ ctl' = [ctl EXCEPT !.pc = "loop",
                                    !.client = [rt |-> TokenOf(o.rt),
                                                at |-> TokenOf(o.at)]]
         ELSE /\ data' = data
              /\ ctl' = CtlEnd(IF o.kind = "panic" THEN "panic"
                               ELSE "authentication error")
  /\ UNCHANGED <<mode, now, pc, stack, fr, hist, result, issuedAt, prev,
                 keychain>>

\* the balances of the accounts listed, lines 90-98
CtlBalances ==
  /\ ctl.pc = "balances"
  /\ \E ok \in BOOLEAN :
       ctl' = CtlEnd(IF ok THEN "ok" ELSE "balance error")
  /\ UNCHANGED <<session, keychain>>

NextCtl ==
  \/ CtlStartup
  \/ CtlLoop
  \/ CtlAccountList
  \/ CtlRenew
  \/ CtlAuthenticate
  \/ CtlBalances

SpecCtl == InitCtl /\ [][NextCtl]_vars

-----------------------------------------------------------------------------
(* Properties of the main loop of etradectl *)

Exhausted == "exhausted all retries for refreshing the credentials"

\* what holds of the loop whatever the refreshes do: at most three
\* account_list attempts, every attempt but the last answered 401, one
\* refresh begun for each 401 and for nothing else, a success leaves the
\* loop, a failure that is no 401 ends the run at once with its error
CtlLoopFacts ==
  LET n == Len(ctl.calls)
  IN /\ n <= 3
     /\ ctl.cnt = n + (IF ctl.pc = "call" THEN 1 ELSE 0)
     /\ \A i \in 1..n : i < n => ctl.calls[i] = 401
     /\ ctl.refreshes = Cardinality({i \in 1..n : ctl.calls[i] = 401})
     /\ (n > 0 /\ ctl.calls[n] = 200) =>
          /\ ctl.pc \in {"balances", "done"}
          /\ ctl.result \in {"none", "ok", "balance error"}
     /\ (n > 0 /\ ctl.calls[n] \in {500, 0}) =>
          /\ ctl.pc = "done" /\ ctl.result = "http error"
          /\ ctl.refreshes = n - 1
     /\ ctl.result = Exhausted =>
          (ctl.pc = "done" /\ ctl.calls = <<401, 401, 401>>)

\* C31, as claimed: the loop makes at most three account_list attempts, a
\* success ends it, a failure that is no 401 ends the run at once without a
\* refresh, and a run whose three attempts were all answered 401 ends with
\* the error of the exhausted retries.
C31_ThreeUnauthorized ==
  /\ CtlLoopFacts
  /\ (ctl.pc = "done" /\ ctl.calls = <<401, 401, 401>>) =>
       ctl.result = Exhausted

\* C31, amended: as claimed, but a run whose three attempts were all
\* answered 401 ends with the error of the exhausted retries only when the
\* refresh after the third 401 succeeded too; a refresh that fails ends the
\* run with its own error (or with the panic of authenticate_client).
C31_MainLoop ==
  /\ CtlLoopFacts
  /\ (ctl.pc = "done" /\ ctl.calls = <<401, 401, 401>>) =>
       ctl.result \in {Exhausted, "renewal error", "authentication error",
                       "panic"}

C31_Witness ==
  /\ ctl.pc = "done" /\ ctl.calls = <<401, 401, 401>>
  /\ ctl.result = Exhausted /\ ctl.refreshes = 3
  /\ ctl.client.at = TokenOf(2)
  /\ MemGet(data, NAMESPACE, ACCESS_TOKEN_KEY) = Some("tok2")

-----------------------------------------------------------------------------
(* Properties of a send rejected twice *)

\* C32: a send whose retried transmission was answered 401 too has
\* invalidated once and no more.  The retry is signed with the access token
\* the store holds; from the signing to the return of the error no step
\* touches the store or invalidates, so the stored pair is the pair that
\* signed the rejected retry; the send called next finds that pair, calls
\* no OAuth endpoint, invokes no callback, writes nothing and gets exactly
\* that pair from access_token.
C32_RejectedRetry ==
  [][\A p \in Procs :
       LET stored == StoredCreds(ACCESS_TOKEN_KEY, ACCESS_TOKEN_SECRET)
       IN /\ (hist[p].attempts = 2 /\ pc[p] = "ds_transmit") =>
               /\ IsSome(stored) /\ hist[p].auth.token = stored
               /\ hist[p].auth.step = "api"
          /\ (hist[p].attempts = 2
              /\ pc[p] \in {"ds_transmit", "send_after_2", "send_finish"}) =>
               /\ data' = data
               /\ hist'[p].sendInv = 1 /\ hist[p].sendInv = 1
               /\ hist'[p].attempts = 2
               /\ pc'[p] \in {"ds_transmit", "send_after_2", "send_finish",
                               "done"}
               /\ (pc'[p] = "done" /\ hist'[p].statuses = <<401, 401>>) =>
                    result'[p].kind = "err"
          /\ (pc[p] = "done" /\ hist[p].statuses = <<401, 401>>) =>
               /\ IsSome(stored)
               /\ pc'[p] = "cons_key" => hist'[p].afterRejected = stored
          /\ IsSome(hist[p].afterRejected) =>
               /\ hist[p].op = "send" /\ hist[p].attempts = 1
               /\ hist[p].trace = <<>> /\ hist[p].rtNet = 0
               /\ stored = hist[p].afterRejected
               /\ data' = data
               /\ pc[p] \in {"cons_key", "cons_secret", "at_after_consumer",
                              "ds_after_consumer", "at_get_key",
                              "at_get_secret", "ds_after_at"}
               /\ pc[p] = "ds_after_at" =>
                    fr[p].ret = OkPair(Unwrap(stored).key,
                                       Unwrap(stored).secret)
               /\ pc'[p] = "ds_transmit" =>
                    hist'[p].auth.token = stored]_vars

C32_Witness ==
  \E p \in Procs :
    /\ pc[p] = "ds_after_at"
    /\ hist[p].afterRejected = Some(Creds("tok2", "sec2"))
    /\ fr[p].ret = OkPair("tok2", "sec2")
    /\ MemGet(data, ns, REQUEST_TOKEN_KEY) = Some("tok1")

-----------------------------------------------------------------------------
(* Properties of the number of callback invocations *)

\* C33: the callback is invoked at most once in one credential resolution
\* (the access_token call of one do_send), and a send, which makes at most
\* two do_send calls, invokes it at most twice.  The steps logged are those
\* of one resolution: the log is emptied only when access_token has
\* returned its token to do_send or the send is over; a step that invokes
\* the callback finds no invocation logged and belongs to the first or to
\* the second do_send.
C33_CallbackCount ==
  [][\A p \in Procs :
       hist[p].op = "send" =>
         /\ Callbacks(hist[p].trace) <= 1
         /\ hist[p].attempts <= 2
         /\ (pc[p] = "full_callback" /\ pc'[p] # "full_callback") =>
              /\ Callbacks(hist[p].trace) = 0
              /\ Callbacks(hist'[p].trace) = 1
              /\ hist[p].attempts \in {1, 2}
         /\ (pc[p] # "full_callback" /\ pc'[p] # "cons_key") =>
              Callbacks(hist'[p].trace) <= Callbacks(hist[p].trace)
         /\ Len(hist'[p].trace) < Len(hist[p].trace) =>
              /\ hist'[p].trace = <<>>
              /\ \/ pc[p] = "ds_after_at" /\ pc'[p] = "ds_transmit"
                 \/ pc[p] = "done"
         /\ hist'[p].attempts > hist[p].attempts =>
              (hist[p].trace = <<>> /\ hist'[p].trace = <<>>)]_vars

\* the API answered 401 to the first attempt, and in the second the
\* callback has been invoked
C33_Witness ==
  \E p \in Procs :
    /\ pc[p] = "create_fetch" /\ hist[p].op = "send"
    /\ hist[p].statuses = <<401>> /\ hist[p].attempts = 2
    /\ Callbacks(hist[p].trace) = 1
    /\ hist[p].cbPin = "5678"

-----------------------------------------------------------------------------
(* Properties of the consumer credentials *)

ConsumerKeySet == {API_KEY, SECRET_KEY}

\* the values of the keys ks in every namespace of the store d
Stored(d, ks) ==
  [n \in {SANDBOX_NAMESPACE, LIVE_NAMESPACE}, k \in ks |-> MemGet(d, n, k)]

\* C34: no step of invalidate or of send (and so none of request_token,
\* access_token, renew_access_token, create_access_token and
\* full_access_token_flow, which run inside send) writes or deletes apikey
\* or secret in any namespace; a step that changes one of the two is one of
\* the two puts of initialize; and no step of initialize changes a token key.
C34_ConsumerUntouched ==
  [][(\A p \in Procs :
        /\ (hist[p].op \in {"invalidate", "send"} /\ pc[p] # "idle") =>
             Stored(data', ConsumerKeySet) = Stored(data, ConsumerKeySet)
        /\ hist[p].op = "initialize" =>
             Stored(data', TokenKeys) = Stored(data, TokenKeys))
     /\ (Stored(data', ConsumerKeySet) # Stored(data, ConsumerKeySet) =>
          \E q \in Procs :
            /\ hist[q].op = "initialize"
            /\ pc[q] \in {"init_put_key", "init_put_secret"}
            /\ Stored(data', ConsumerKeySet) =
                 Stored(MemPut(data, ns,
                               IF pc[q] = "init_put_key" THEN API_KEY
                                                         ELSE SECRET_KEY,
                               IF pc[q] = "init_put_key"
                                 THEN fr[q].args.key
                                 ELSE fr[q].args.secret),
                        ConsumerKeySet))]_vars

\* a send has gone through invalidate and the whole flow to a new access
\* token, and the consumer pair put by initialize is still the stored one
C34_Witness ==
  \E p \in Procs :
    /\ pc[p] = "done" /\ hist[p].op = "send"
    /\ hist[p].sendInv = 1 /\ hist[p].statuses = <<401, 200>>
    /\ MemGet(data, ns, API_KEY) = Some("ck1")
    /\ MemGet(data, ns, SECRET_KEY) = Some("cs1")
    /\ MemGet(data, ns, ACCESS_TOKEN_KEY) = Some("tok2")
    /\ MemGet(data, ns, REQUEST_TOKEN_KEY) = Some("tok1")

-----------------------------------------------------------------------------
(* Properties of a send served from the cached access token *)

\* the steps of a send up to the lookup of the cached access token
LookupPcs == {"cons_key", "cons_secret", "ds_after_consumer",
              "at_after_consumer", "at_get_key", "at_get_secret"}

\* C35: a send whose access_token call finds the cached pair and whose
\* first API response is not 401 makes no store write and no store delete.
\* Step by step: up to the lookup the call only reads; the cached pair is
\* found by the second get of access_token and is the stored pair; from
\* then on every step leaves the store as it is and stays in do_send and
\* the tail of send, unless the response is a 401; and the call returns a
\* value or an error with at most one response received, which is not 401.
C35_CachedSendReadsOnly ==
  [][\A p \in Procs :
       hist[p].op = "send" =>
         /\ (hist[p].attempts = 1 /\ ~hist[p].cached /\ pc[p] \in LookupPcs) =>
              data' = data
         /\ (hist'[p].cached /\ ~hist[p].cached) =>
              /\ pc[p] = "at_get_secret" /\ hist[p].attempts = 1
              /\ pc'[p] = "ds_after_at"
              /\ IsSome(StoredCreds(ACCESS_TOKEN_KEY, ACCESS_TOKEN_SECRET))
              /\ LET c == Unwrap(StoredCreds(ACCESS_TOKEN_KEY,
                                             ACCESS_TOKEN_SECRET))
                 IN fr'[p].ret = OkPair(c.key, c.secret)
         /\ (hist[p].cached /\ pc[p] # "done") =>
              /\ data' = data
              /\ hist[p].attempts = 1 /\ hist[p].sendInv = 0
              /\ pc[p] \in {"ds_after_at", "ds_transmit", "send_after_1",
                            "send_finish"}
              /\ IF pc'[p] = pc[p] THEN hist'[p] = hist[p]
                 ELSE IF pc[p] = "send_after_1" /\ fr[p].ret.ok
                           /\ fr[p].dsresp.status = 401
                   THEN ~hist'[p].cached /\ pc'[p] = "inv"
                   ELSE /\ hist'[p].cached
                        /\ pc'[p] \in {"ds_after_at", "ds_transmit",
                                       "send_after_1", "send_finish", "done"}
              /\ pc'[p] = "done" =>
                   /\ result'[p].kind \in {"ok", "err"}
                   /\ hist'[p].statuses \in
                        {<<>>} \cup {<<s>> : s \in ApiStatuses \ {401}}]_vars

\* a send served from the cache has returned the API error of a 500, and
\* another the unknown-content-type error of a 200
C35_Witness ==
  \E p \in Procs :
    /\ pc[p] = "done" /\ hist[p].op = "send" /\ hist[p].cached
    /\ HasAccessToken(data)
    /\ \/ /\ hist[p].statuses = <<500>>
          /\ result[p] = SendErr("bad request (code: 100)")
       \/ /\ hist[p].statuses = <<200>>
          /\ result[p] = SendErr("api responded with unknown content type")

-----------------------------------------------------------------------------
(* Properties of the request token cache on a partly filled store *)

\* the date the code takes as today's at the instant h, as it is stored
TodayString(h) == FormatDate(Today(h))

\* C36: a request_token call returns the stored pair without a fetch only
\* when it found key, secret and date stored and the date was the date of
\* its lookup; a call that finds one of the three missing calls the
\* request-token endpoint once (unless one of its own lookups fails in the
\* store); and when a call returns a pair, the store holds that pair as key
\* and secret and holds the date of the lookup (cached) or of the stamp
\* (fetched), the date the code takes as today's.
C36_ThreeKeys ==
  \A p \in Procs :
    RtReturned(p) =>
      LET e == hist[p].rtEntry
          fetched == hist[p].rtNet = 1
      IN /\ hist[p].rtNet \in {0, 1}
         /\ (fr[p].ret.ok /\ ~fetched) =>
              /\ RtStored(e) /\ data = e
              /\ MemGet(e, ns, REQUEST_TOKEN_CREATED)
                   = Some(TodayString(hist[p].rtLookup))
              /\ fr[p].ret = OkPair(Unwrap(MemGet(e, ns, REQUEST_TOKEN_KEY)),
                                    Unwrap(MemGet(e, ns, REQUEST_TOKEN_SECRET)))
         /\ ~RtStored(e) =>
              \/ fetched
              \/ ~fr[p].ret.ok /\ Last(hist[p].trace) = "store_err"
         /\ fr[p].ret.ok =>
              /\ RtStored(data)
              /\ MemGet(data, ns, REQUEST_TOKEN_KEY) = Some(fr[p].ret.key)
              /\ MemGet(data, ns, REQUEST_TOKEN_SECRET) = Some(fr[p].ret.secret)
              /\ MemGet(data, ns, REQUEST_TOKEN_CREATED)
                   = Some(TodayString(IF fetched THEN hist[p].rtStamp
                                                 ELSE hist[p].rtLookup))

\* the call found key and secret of an older token but no date, fetched a
\* new token and stored it whole
C36_Witness ==
  \E p \in Procs :
    /\ RtReturned(p) /\ hist[p].rtNet = 1
    /\ MemGet(hist[p].rtEntry, ns, REQUEST_TOKEN_KEY) = Some("tok1")
    /\ MemGet(hist[p].rtEntry, ns, REQUEST_TOKEN_SECRET) = Some("sec1")
    /\ MemGet(hist[p].rtEntry, ns, REQUEST_TOKEN_CREATED) = None
    /\ fr[p].ret = OkPair("tok2", "sec2")
    /\ MemGet(data, ns, REQUEST_TOKEN_KEY) = Some("tok2")
    /\ MemGet(data, ns, REQUEST_TOKEN_CREATED) = Some("2020-02-29")

-----------------------------------------------------------------------------
(* A Session over a store it did not fill itself.  Session::new takes any  *)
(* Store; a keychain outlives the process and is open to other programs,   *)
(* so the request_token_ts a Session finds need not be one it has written. *)

\* dates found stored: today's as the Session writes it, the same day
\* without the leading zero, and a string that is no %Y-%m-%d date
ForeignDates == {"2020-02-29", "2020-2-29", "29.02.2020"}

InitForeign ==
  /\ SessionInit
  /\ \E d \in ForeignDates :
       data = [n \in {ns} |->
                 [k \in {API_KEY, SECRET_KEY, REQUEST_TOKEN_KEY,
                         REQUEST_TOKEN_SECRET, REQUEST_TOKEN_CREATED} |->
                    IF k = API_KEY THEN "ck1"
                    ELSE IF k = SECRET_KEY THEN "cs1"
                    ELSE IF k = REQUEST_TOKEN_KEY THEN "tok1"
                    ELSE IF k = REQUEST_TOKEN_SECRET THEN "sec1"
                    ELSE d]]
  /\ impl = "Memstore"
  /\ items = NoItems
  /\ last = NoCall
  /\ expect = NoExpect
  /\ ctl = NoCtl

SpecForeign == InitForeign /\ [][Next]_vars

\* C37: whatever the store holds, request_token does not abort the calling
\* task over it: a call that has not yet reached the request-token endpoint
\* never panics, so a stored date that does not parse ends in a fetch or in
\* an error value.
C37_NoAbortOnStoredDate ==
  \A p \in Procs :
    (result[p].kind = "panic" /\ hist[p].trace # <<>>
       /\ Last(hist[p].trace) = "rt_panic") => hist[p].rtNet >= 1

-----------------------------------------------------------------------------
(* Two threads sharing one Session.  The future of send is Send (the Store *)
(* methods take `impl .. + Send` arguments, the callback is an async_trait *)
(* object), so an executor with several threads runs two calls of send at  *)
(* the same time.  Memstore locks its map inside each put, del and get     *)
(* (lib.rs 214, 222, 231) and the Session holds no lock of its own, so the *)
(* store calls of the two threads interleave one by one.                   *)

\* a Session whose consumer pair has been set up by initialize
InitParallel ==
  /\ SessionInit
  /\ data = MemPut(MemPut(EmptyMap, ns, API_KEY, "ck1"), ns, SECRET_KEY, "cs1")
  /\ impl = "Memstore"
  /\ items = NoItems
  /\ last = NoCall
  /\ expect = NoExpect
  /\ ctl = NoCtl

\* the remote side of these runs: both threads only send; the API answers
\* 200 or 401 without a Content-Type and with a JSON body; an OAuth
\* endpoint answers thread p with 200 and the p-th credential pair
ParallelScope ==
  \A p \in Procs :
    /\ hist[p].op \in {"none", "send"}
    /\ result[p].kind \in {"none", "ok", "err"}
    /\ \A i \in 1..Len(hist[p].statuses) : hist[p].statuses[i] = 200
    /\ hist[p].apiTx = Len(hist[p].statuses)
    /\ hist[p].lastResp.ct = NoResp.ct
    /\ hist[p].lastBody \in
         {NoBody, [read |-> TRUE, fmt |-> "json", doc |-> "payload", val |-> "a"]}
    /\ pc[p] = "done" => hist[p].lastBody # NoBody
    /\ hist[p].authStatus \in {0, 200}
    /\ hist[p].authStatus = 200 =>
         Last(hist[p].trace) \notin {"rt_err", "renew_err", "create_err"}
    /\ hist[p].issued \in {NoCreds, Creds(TokKeyTable[p], TokSecretTable[p])}

ParallelNext == \E p \in Procs : Caller(p) /\ ParallelScope'

SpecParallel == InitParallel /\ [][ParallelNext]_vars

\* C38: also with two sends in parallel whose store calls interleave, the
\* pair access_token returns from the store has the key and the secret of
\* one answer of an OAuth endpoint.
C38_CachedPairWhole ==
  \A p \in Procs :
    (pc[p] = "ds_after_at" /\ fr[p].ret.ok /\ hist[p].trace = <<>>) =>
      \E i \in TokIds :
        fr[p].ret = OkPair(TokKeyTable[i], TokSecretTable[i])

-----------------------------------------------------------------------------
(* Properties of Store::get on a name the store does not hold *)

\* C39: for every Store of the repository, a get of a name the store does
\* not hold, made while the keychain can be reached, returns Ok(None); the
\* lookups of access_token on a store without an access token depend on it.
C39_GetMissing ==
  (last.op = "get" /\ last.up /\ ~last.held) =>
    (last.ok /\ last.val = None)

-----------------------------------------------------------------------------
(* Properties of a response without a usable Content-Type *)

\* C40: a send whose last response has a 2xx status and no Content-Type
\* header, or one whose value is not text, and whose body has been read
\* returns what the JSON deserializer gives for the body: the value of a
\* JSON payload, the JSON error for any other body, and never the unknown
\* content type error.
C40_DefaultsToJson ==
  \A p \in Procs :
    (/\ pc[p] = "done" /\ hist[p].op = "send"
     /\ hist[p].statuses # <<>> /\ LastStatus(p) \div 100 = 2
     /\ hist[p].lastBody.read
     /\ ~(hist[p].lastResp.ct.present /\ hist[p].lastResp.ct.text)) =>
      /\ result[p].kind \in {"ok", "err"}
      /\ result[p].kind = "ok" <=>
           (hist[p].lastBody.fmt = "json" /\ hist[p].lastBody.doc = "payload")
      /\ result[p].kind = "ok" => result[p].val = hist[p].lastBody.val
      /\ result[p].kind = "err" => result[p].val = "json error"

\* a 201 whose Content-Type is not text, with a JSON body, gave the value
C40_Witness ==
  \E p \in Procs :
    /\ pc[p] = "done" /\ hist[p].op = "send"
    /\ hist[p].statuses = <<201>>
    /\ hist[p].lastResp.ct.present /\ ~hist[p].lastResp.ct.text
    /\ hist[p].lastBody.fmt = "json" /\ hist[p].lastBody.val = "b"
    /\ result[p] = SendOk("b")

=============================================================================
